---- MODULE Spec2Model ----
(***************************************************************************)
(* A model of the syslog reception library rickb777/syslog.                *)
(*                                                                         *)
(* Part 1 (specifications Spec and FairSpec): the server core and the      *)
(* BaseHandler helper.  One caller thread issues AddHandler, ListenFilter  *)
(* and Shutdown; every listener has a receiver goroutine; one dispatch     *)
(* goroutine runs passToHandlers; every BaseHandler has a worker goroutine *)
(* that calls Get until it returns nil and then calls End.                 *)
(*                                                                         *)
(* Part 2 (specification ParseSpec): parseMessage on bounded datagrams.    *)
(***************************************************************************)
EXTENDS Integers, Sequences, FiniteSets, TLC

\* ------------------------------------------------------------------ bounds
\* At most MaxHandlers handlers and MaxListeners listeners, MaxParts of them
\* together; at most MaxMessages datagrams get past parser and ingress filter.
MaxHandlers == 2
MaxListeners == 2
MaxParts == 3
MaxMessages == 2
\* NewServer is given a capacity in 1..MaxQLen, NewBaseHandler the capacity HQLen.
MaxQLen == 2
HQLen == 1
\* The parser is run on every datagram of at most MaxPktLen bytes, and on every
\* RFC 5424 datagram "1 " + text with a text of at most MaxSDLen bytes.
MaxPktLen == 4
MaxSDLen == 5
\* At most MaxFileCalls calls (Handle, SigHup) are made to the FileHandler.
MaxFileCalls == 3
\* The retain count is in 0..MaxRetain; at most MaxRotations rotations start.
MaxRetain == 2
MaxRotations == 3
\* The priority fields of the datagrams have up to MaxPriDigits digits.
MaxPriDigits == 3
\* The filter texts have up to MaxFilterLen tokens, the severity lists up to
\* MaxListLen.
MaxFilterLen == 5
MaxListLen == 3
\* The parser is also run on fields '<' text '>' with a text of up to
\* MaxPriText bytes.
MaxPriText == 4
\* The filename templates have up to MaxTemplateLen pieces.
MaxTemplateLen == 2
\* Message.Priority is applied to facilities 0..MaxFacility and severities
\* 0..MaxSeverity (Local7 is 23, Debug is 7).
MaxFacility == 31
MaxSeverity == 15

\* ------------------------------------------------------------------ state
VARIABLES
    conns,        \* Server.conns: the listeners, in the order Listen appended them
    connState,    \* per listener: "unbound" | "open" | "closed"
    acceptOf,     \* per listener: the ingress filter its receiver was started with
    qlen,         \* the capacity NewServer gave Server.queue
    queue,        \* Server.queue: the buffered channel's content
    queueClosed,  \* whether close(s.queue) has run
    handlers,     \* Server.handlers: handler ids in registration order
    hcfg,         \* per handler object: its kind and, for a BaseHandler, its fields
    shutDown,     \* Server.shutDown (atomic flag)
    hq,           \* BaseHandler.queue content, per handler
    hqClosed,     \* whether close(h.queue) has run, per handler
    hEnd,         \* whether close(h.end) has run, per handler
    wPc,          \* BaseHandler worker goroutine: "none" | "run" | "end" | "done"
    wGot,         \* per handler: the messages its worker obtained from Get, in order
    sPc,          \* caller thread inside Shutdown: position
    sIdx,         \* caller thread inside Shutdown: loop index
    dPc,          \* dispatch goroutine: "recv" | "chain" | "exited"
    dMsg,         \* dispatch goroutine: local m
    dOrig,        \* dispatch goroutine: the message as it was dequeued
    dChain,       \* dispatch goroutine: the slice the inner range statement iterates
    dIdx,         \* dispatch goroutine: inner loop index
    rPc,          \* receiver goroutine per listener: "none" | "read" | "parsing" | "send" |
                  \* "exited" (returned) | "exitedLogged" (returned after logging "Read error:")
    rMsg,         \* receiver goroutine per listener: local m
    nMsgs,        \* number of messages parsed and accepted so far (numbers them)
    crashed,      \* "" or the reason the process panicked
    calls,        \* history: every Handle call, in order: handler, argument, result
    enqLog,       \* history: every message sent to Server.queue, in order
    parse,        \* parser model (part 2)
    fh,           \* FileHandler and its files (part 3)
    rot,          \* log rotation (part 4)
    call          \* one call of a library function outside the server (part 5)

serverVars == <<conns, connState, acceptOf, qlen, queue, queueClosed, handlers, hcfg,
    shutDown, hq, hqClosed, hEnd, wPc, wGot, sPc, sIdx, dPc, dMsg, dOrig, dChain,
    dIdx, rPc, rMsg, nMsgs, crashed, calls, enqLog>>

vars == <<serverVars, parse, fh, rot, call>>

HandlerIds == 1..MaxHandlers
ListenerIds == 1..MaxListeners

\* A nil *Message.
NilMsg == [src |-> 0, n |-> 0, fac |-> "nil", hops |-> 0]

\* The facilities the model distinguishes (Facility values User and Kern).
Facilities == {"user", "kern"}

\* The message parseMessage returns for the n-th datagram, read on listener l.
NewMessage(l, n, fac) == [src |-> l, n |-> n, fac |-> fac, hops |-> 0]

\* Filters: AcceptEverything, and the example server's filter for 'user' messages.
FilterNames == {"all", "user"}

ApplyFilter(f, m) == IF f = "all" THEN TRUE ELSE m.fac = "user"

\* Handler objects.  "plain" stands for any implementation of the Handler
\* interface that returns at once (a user's own handler): Handle(m) returns
\* nil or m modified; Handle(nil) returns nil.
\* "base" is a BaseHandler; discard is "nil" (no discardFunc) or a filter name.
NoHandler == [kind |-> "none", discard |-> "nil", ft |-> FALSE]

PlainHandler == [kind |-> "plain", discard |-> "nil", ft |-> FALSE]

NewBaseHandler(filter, ft) == [kind |-> "base", discard |-> filter, ft |-> ft]

\* The handlers a caller registers: a plain one, a BaseHandler that consumes
\* the 'user' messages, a BaseHandler that forwards every message.
HandlerConfigs == {PlainHandler, NewBaseHandler("user", FALSE), NewBaseHandler("nil", TRUE)}

\* ------------------------------------------------------------------ parser state (part 2)
\* now(), line 116: the time of receipt, 16:00 UTC on 26 October 2023, as
\* the instant in hours since the start of the month and the offset of the
\* zone in hours.
now == [instant |-> 26 * 24 + 16, offset |-> 0]

\* A Message under construction.  Strings are sequences of bytes, a byte is
\* written as a one-character string or as NUL, CR, LF, EF, BB, BF.
\* tsParsed: Timestamp was parsed from the datagram (else it is the receive
\* time), and then timestamp is the text it was parsed from; clock: the
\* Timestamp as a time.
EmptyMessage == [facility |-> 0, severity |-> 0, version |-> 0, tsParsed |-> FALSE,
    timestamp |-> <<>>, clock |-> now,
    tzSet |-> FALSE, tz |-> 0, hostname |-> <<>>, application |-> <<>>,
    procID |-> <<>>, msgID |-> <<>>, data |-> <<>>, content |-> <<>>]

\* parse.pc: where the parser is ("done": a Message is returned, "error": an
\* error is returned, "panic": a run-time panic); pkt: the datagram; s: the
\* text still to be parsed; hasBOM: a byte order mark was found; m: the
\* Message; r: the scan position of the structured-data loop.
ParseState(pc, pkt, str, hasBOM, m, r) ==
    [pc |-> pc, pkt |-> pkt, s |-> str, hasBOM |-> hasBOM, m |-> m, r |-> r]

ParseIdle == ParseState("idle", <<>>, <<>>, FALSE, EmptyMessage, -1)

\* No FileHandler, no rotation.
FileIdle == [pc |-> "idle"]

RotateIdle == [pc |-> "idle"]

\* No library call.
CallIdle == [pc |-> "idle"]

\* ------------------------------------------------------------------ Init
\* NewServer(n): an empty queue of capacity n, no handlers, no listeners, the
\* dispatch goroutine started.
NewServer(n) ==
    /\ qlen = n
    /\ conns = <<>>
    /\ connState = [l \in ListenerIds |-> "unbound"]
    /\ acceptOf = [l \in ListenerIds |-> "all"]
    /\ queue = <<>>
    /\ queueClosed = FALSE
    /\ handlers = <<>>
    /\ hcfg = [h \in HandlerIds |-> NoHandler]
    /\ shutDown = FALSE
    /\ hq = [h \in HandlerIds |-> <<>>]
    /\ hqClosed = [h \in HandlerIds |-> FALSE]
    /\ hEnd = [h \in HandlerIds |-> FALSE]
    /\ wPc = [h \in HandlerIds |-> "none"]
    /\ wGot = [h \in HandlerIds |-> <<>>]
    /\ sPc = "idle"
    /\ sIdx = 0
    /\ dPc = "recv"
    /\ dMsg = NilMsg
    /\ dOrig = NilMsg
    /\ dChain = <<>>
    /\ dIdx = 0
    /\ rPc = [l \in ListenerIds |-> "none"]
    /\ rMsg = [l \in ListenerIds |-> NilMsg]
    /\ nMsgs = 0
    /\ crashed = ""
    /\ calls = <<>>
    /\ enqLog = <<>>

\* The parts the server model leaves alone.
OthersIdle == fh = FileIdle /\ rot = RotateIdle /\ call = CallIdle

Init == (\E n \in 1..MaxQLen : NewServer(n)) /\ parse = ParseIdle /\ OthersIdle

Alive == crashed = ""

\* The caller thread is not inside an API call.
CallerIdle == sPc \in {"idle", "returned"}

\* ------------------------------------------------------------------ caller: AddHandler, ListenFilter
\* s.handlers = append(s.handlers, h).  The handler list is mutated only
\* before the data path runs (no listener yet, not shut down): the handler
\* object gets the next id, and a BaseHandler's worker goroutine starts.
AddHandler(cfg) ==
    /\ Alive /\ sPc = "idle" /\ conns = <<>>
    /\ Len(handlers) < MaxHandlers
    /\ LET h == Len(handlers) + 1 IN
        /\ handlers' = Append(handlers, h)
        /\ hcfg' = [hcfg EXCEPT ![h] = cfg]
        /\ wPc' = [wPc EXCEPT ![h] = IF cfg.kind = "base" THEN "run" ELSE "none"]
    /\ UNCHANGED <<conns, connState, acceptOf, qlen, queue, queueClosed, shutDown, hq,
        hqClosed, hEnd, wGot, sPc, sIdx, dPc, dMsg, dOrig, dChain, dIdx, rPc, rMsg,
        nMsgs, crashed, calls, enqLog, parse, fh, rot, call>>

\* The number of listeners created so far.
NumBound == Cardinality({l \in ListenerIds : connState[l] # "unbound"})

\* ListenFilter, line 247: s.shutDown.Load().
AlreadyShutDown_Never == FALSE

AlreadyShutDown == shutDown

\* ListenFilter(addr, accept): panics after Shutdown; returns the error when
\* resolving or binding fails; else appends the listener and starts its receiver.
ListenFilter(accept, bindOk) ==
    /\ Alive /\ CallerIdle
    /\ IF AlreadyShutDown
        THEN /\ crashed' = "Server is already shut down"
             /\ UNCHANGED <<conns, connState, acceptOf, rPc>>
        ELSE /\ NumBound < MaxListeners
             /\ Len(handlers) + NumBound < MaxParts
             /\ IF ~bindOk
                 THEN UNCHANGED <<conns, connState, acceptOf, rPc, crashed>>
                 ELSE LET l == NumBound + 1 IN
                      /\ conns' = Append(conns, l)
                      /\ connState' = [connState EXCEPT ![l] = "open"]
                      /\ acceptOf' = [acceptOf EXCEPT ![l] = accept]
                      /\ rPc' = [rPc EXCEPT ![l] = "read"]
                      /\ UNCHANGED crashed
    /\ UNCHANGED <<qlen, queue, queueClosed, handlers, hcfg, shutDown, hq, hqClosed,
        hEnd, wPc, wGot, sPc, sIdx, dPc, dMsg, dOrig, dChain, dIdx, rMsg, nMsgs,
        calls, enqLog, parse, fh, rot, call>>

\* ------------------------------------------------------------------ receiver goroutines
\* What c.ReadFrom delivers, by what parseMessage does with it (part 2): it
\* returns an error ("bad"), it panics ("panic"), it does not return ("loop"),
\* or it returns a message of one of the facilities.
DatagramKinds == {"bad", "panic", "loop"} \cup Facilities

\* The send queue <- m on the open channel: it blocks while the buffer is
\* full, else the message is appended.
ChanSend_DropOnFull(q, cap, m) ==
    IF Len(q) >= cap THEN [blocked |-> FALSE, q |-> q]
    ELSE [blocked |-> FALSE, q |-> Append(q, m)]

ChanSend(q, cap, m) ==
    IF Len(q) >= cap THEN [blocked |-> TRUE, q |-> q]
    ELSE [blocked |-> FALSE, q |-> Append(q, m)]

\* receiver, lines 322-337 up to the send: read one datagram and parse it.  On
\* a parse error, or when the ingress filter rejects the message, the
\* datagram is dropped and the loop reads again; else m is kept for the send.
\* A panic in parseMessage is not recovered and ends the process; a call
\* that does not return keeps the goroutine in parseMessage.
ReceiverRead(l) ==
    /\ Alive /\ rPc[l] = "read" /\ connState[l] = "open"
    /\ \E kind \in DatagramKinds :
        LET m == NewMessage(l, nMsgs + 1, kind) IN
        CASE kind = "panic" ->
                /\ crashed' = "index out of range"
                /\ UNCHANGED <<nMsgs, rMsg, rPc>>
          [] kind = "loop" ->
                /\ rPc' = [rPc EXCEPT ![l] = "parsing"]
                /\ UNCHANGED <<nMsgs, rMsg, crashed>>
          [] kind \in Facilities /\ ApplyFilter(acceptOf[l], m) ->
                /\ nMsgs < MaxMessages
                /\ nMsgs' = nMsgs + 1
                /\ rMsg' = [rMsg EXCEPT ![l] = m]
                /\ rPc' = [rPc EXCEPT ![l] = "send"]
                /\ UNCHANGED crashed
          [] OTHER -> UNCHANGED <<nMsgs, rMsg, rPc, crashed>>
    /\ UNCHANGED <<conns, connState, acceptOf, qlen, queue, queueClosed, handlers, hcfg,
        shutDown, hq, hqClosed, hEnd, wPc, wGot, sPc, sIdx, dPc, dMsg, dOrig, dChain,
        dIdx, calls, enqLog, parse, fh, rot, call>>

\* The closure ListenFilter hands to receiver as running (line 274):
\* !s.shutDown.Load().
Running_Always(sd) == TRUE

Running(sd) == ~sd

\* receiver, lines 322-328: ReadFrom fails: always once the listener is
\* closed, and at any time on an open listener (an I/O error of the socket).
\* The error is logged when running() says so; the goroutine returns.
ReceiverReadError(l) ==
    /\ Alive /\ rPc[l] = "read" /\ connState[l] \in {"open", "closed"}
    /\ rPc' = [rPc EXCEPT ![l] = IF Running(shutDown) THEN "exitedLogged" ELSE "exited"]
    /\ UNCHANGED <<conns, connState, acceptOf, qlen, queue, queueClosed, handlers, hcfg,
        shutDown, hq, hqClosed, hEnd, wPc, wGot, sPc, sIdx, dPc, dMsg, dOrig, dChain,
        dIdx, rMsg, nMsgs, crashed, calls, enqLog, parse, fh, rot, call>>

\* receiver, line 336: queue <- m.  A send on a closed channel panics (also
\* for a sender that was blocked when the channel was closed); a send on a
\* full channel blocks.
ReceiverSend(l) ==
    /\ Alive /\ rPc[l] = "send"
    /\ IF queueClosed
        THEN /\ crashed' = "send on closed Server.queue"
             /\ UNCHANGED <<queue, enqLog, rPc>>
        ELSE LET snd == ChanSend(queue, qlen, rMsg[l]) IN
             /\ ~snd.blocked
             /\ queue' = snd.q
             /\ enqLog' = IF snd.q # queue THEN Append(enqLog, rMsg[l]) ELSE enqLog
             /\ rPc' = [rPc EXCEPT ![l] = "read"]
             /\ UNCHANGED crashed
    /\ UNCHANGED <<conns, connState, acceptOf, qlen, queueClosed, handlers, hcfg, shutDown,
        hq, hqClosed, hEnd, wPc, wGot, sPc, sIdx, dPc, dMsg, dOrig, dChain, dIdx,
        rMsg, nMsgs, calls, parse, fh, rot, call>>

\* ------------------------------------------------------------------ BaseHandler
\* The discard predicate lets m through to the internal queue.
Accepted(cfg, m) == cfg.discard = "nil" \/ ApplyFilter(cfg.discard, m)

\* select { case h.queue <- m: default: } on an open channel.
TrySend_NoDefault(q, m) == Append(q, m)

TrySend(q, m) == IF Len(q) < HQLen THEN Append(q, m) ELSE q

\* What BaseHandler.Handle(m) returns for a non-nil m.
BaseResult_IgnoresFt(cfg, m) == IF ~Accepted(cfg, m) THEN m ELSE NilMsg

BaseResult(cfg, m) ==
    IF ~Accepted(cfg, m) THEN m
    ELSE IF cfg.ft THEN m ELSE NilMsg

\* What a plain handler may return for a non-nil m.
Modified(m) == [m EXCEPT !.hops = m.hops + 1]

PlainResults(m) == {NilMsg, Modified(m)}

\* m, ok := <-h.queue: ok is true while the buffer holds a message, also
\* when the channel has been closed.
RecvOk_NoDrain(q, closed) == q # <<>> /\ ~closed

RecvOk(q, closed) == q # <<>>

\* BaseHandler.Get by the worker: a message, or nil once the queue is closed
\* and empty; the worker then goes on to call End.
WorkerGet(h) ==
    /\ Alive /\ wPc[h] = "run"
    /\ IF RecvOk(hq[h], hqClosed[h])
        THEN /\ wGot' = [wGot EXCEPT ![h] = Append(wGot[h], Head(hq[h]))]
             /\ hq' = [hq EXCEPT ![h] = Tail(hq[h])]
             /\ UNCHANGED wPc
        ELSE /\ hqClosed[h]
             /\ wPc' = [wPc EXCEPT ![h] = "end"]
             /\ UNCHANGED <<wGot, hq>>
    /\ UNCHANGED <<conns, connState, acceptOf, qlen, queue, queueClosed, handlers, hcfg,
        shutDown, hqClosed, hEnd, sPc, sIdx, dPc, dMsg, dOrig, dChain, dIdx, rPc,
        rMsg, nMsgs, crashed, calls, enqLog, parse, fh, rot, call>>

\* BaseHandler.End by the worker: close(h.end).
End(h) ==
    /\ Alive /\ wPc[h] = "end"
    /\ hEnd' = [hEnd EXCEPT ![h] = TRUE]
    /\ wPc' = [wPc EXCEPT ![h] = "done"]
    /\ UNCHANGED <<conns, connState, acceptOf, qlen, queue, queueClosed, handlers, hcfg,
        shutDown, hq, hqClosed, wGot, sPc, sIdx, dPc, dMsg, dOrig, dChain, dIdx, rPc,
        rMsg, nMsgs, crashed, calls, enqLog, parse, fh, rot, call>>

\* ------------------------------------------------------------------ dispatch goroutine
\* The message the channel receive yields (FIFO).
ChanRecv_Newest(q) == q[Len(q)]

ChanRecv(q) == Head(q)

\* The channel's content after that receive.
ChanRest(q) == Tail(q)

\* The inner loop stops at the first handler that returns nil.
ChainStops_Never(out) == FALSE

ChainStops(out) == out = NilMsg

\* What the read of s.handlers at the head of the inner range statement may
\* yield.  The read is not synchronised with Shutdown's write s.handlers = nil:
\* while that write is under way the read yields the old slice, the nil slice,
\* or a torn slice header (nil pointer, old length), on which the loop faults.
HandlersRead ==
    IF sPc = "clearHandlers"
    THEN {[ok |-> TRUE, hs |-> handlers], [ok |-> TRUE, hs |-> <<>>],
          [ok |-> FALSE, hs |-> <<>>]}
    ELSE {[ok |-> TRUE, hs |-> handlers]}

\* passToHandlers, lines 309-310: receive one message and evaluate the range
\* expression; with no handler the message is dropped at once.
DispatchRecv ==
    /\ Alive /\ dPc = "recv" /\ queue # <<>>
    /\ \E rd \in HandlersRead :
        /\ queue' = ChanRest(queue)
        /\ dMsg' = ChanRecv(queue)
        /\ dOrig' = ChanRecv(queue)
        /\ dChain' = rd.hs
        /\ dIdx' = 1
        /\ dPc' = IF rd.hs = <<>> THEN "recv" ELSE "chain"
        /\ crashed' = IF rd.ok THEN "" ELSE "nil pointer dereference"
    /\ UNCHANGED <<conns, connState, acceptOf, qlen, queueClosed, handlers, hcfg, shutDown,
        hq, hqClosed, hEnd, wPc, wGot, sPc, sIdx, rPc, rMsg, nMsgs, calls, enqLog,
        parse, fh, rot, call>>

\* passToHandlers, line 309: the range over s.queue ends when the queue is
\* closed and empty.
DispatchExit ==
    /\ Alive /\ dPc = "recv" /\ queue = <<>> /\ queueClosed
    /\ dPc' = "exited"
    /\ UNCHANGED <<conns, connState, acceptOf, qlen, queue, queueClosed, handlers, hcfg,
        shutDown, hq, hqClosed, hEnd, wPc, wGot, sPc, sIdx, dMsg, dOrig, dChain, dIdx,
        rPc, rMsg, nMsgs, crashed, calls, enqLog, parse, fh, rot, call>>

\* The dispatch goroutine's step after h.Handle(m) returned out.
DispatchAfter(h, out) ==
    /\ calls' = Append(calls, [h |-> h, arg |-> dMsg, out |-> out])
    /\ IF ChainStops(out) \/ dIdx = Len(dChain)
        THEN /\ dPc' = "recv"
             /\ UNCHANGED <<dMsg, dIdx>>
        ELSE /\ dMsg' = out
             /\ dIdx' = dIdx + 1
             /\ UNCHANGED dPc

\* passToHandlers, lines 311-314, with a plain handler.
DispatchHandlePlain ==
    /\ Alive /\ dPc = "chain"
    /\ hcfg[dChain[dIdx]].kind = "plain"
    /\ \E out \in PlainResults(dMsg) : DispatchAfter(dChain[dIdx], out)
    /\ UNCHANGED <<conns, connState, acceptOf, qlen, queue, queueClosed, handlers, hcfg,
        shutDown, hq, hqClosed, hEnd, wPc, wGot, sPc, sIdx, dOrig, dChain, rPc, rMsg,
        nMsgs, crashed, enqLog, parse, fh, rot, call>>

\* passToHandlers, lines 311-314, with a BaseHandler: Handle(m), m non-nil.
\* A send on the closed internal queue panics.
DispatchHandleBase ==
    /\ Alive /\ dPc = "chain"
    /\ hcfg[dChain[dIdx]].kind = "base"
    /\ LET h == dChain[dIdx]
           cfg == hcfg[h]
       IN IF Accepted(cfg, dMsg) /\ hqClosed[h]
          THEN /\ crashed' = "send on closed BaseHandler.queue"
               /\ UNCHANGED <<hq, calls, dPc, dMsg, dIdx>>
          ELSE /\ hq' = [hq EXCEPT ![h] =
                        IF Accepted(cfg, dMsg) THEN TrySend(hq[h], dMsg) ELSE hq[h]]
               /\ DispatchAfter(h, BaseResult(cfg, dMsg))
               /\ UNCHANGED crashed
    /\ UNCHANGED <<conns, connState, acceptOf, qlen, queue, queueClosed, handlers, hcfg,
        shutDown, hqClosed, hEnd, wPc, wGot, sPc, sIdx, dOrig, dChain, rPc, rMsg,
        nMsgs, enqLog, parse, fh, rot, call>>

\* ------------------------------------------------------------------ caller: Shutdown
\* Shutdown, line 289: s.shutDown.Store(true).
ShutdownStart ==
    /\ Alive /\ CallerIdle
    /\ shutDown' = TRUE
    /\ sPc' = "closeConns"
    /\ sIdx' = 1
    /\ UNCHANGED <<conns, connState, acceptOf, qlen, queue, queueClosed, handlers, hcfg, hq,
        hqClosed, hEnd, wPc, wGot, dPc, dMsg, dOrig, dChain, dIdx, rPc, rMsg, nMsgs,
        crashed, calls, enqLog, parse, fh, rot, call>>

\* Shutdown, lines 290-295: close the next listener.
ShutdownCloseConn ==
    /\ Alive /\ sPc = "closeConns" /\ sIdx <= Len(conns)
    /\ connState' = [connState EXCEPT ![conns[sIdx]] = "closed"]
    /\ sIdx' = sIdx + 1
    /\ UNCHANGED <<conns, acceptOf, qlen, queue, queueClosed, handlers, hcfg, shutDown, hq,
        hqClosed, hEnd, wPc, wGot, sPc, dPc, dMsg, dOrig, dChain, dIdx, rPc, rMsg,
        nMsgs, crashed, calls, enqLog, parse, fh, rot, call>>

\* Shutdown, lines 296-297: close(s.queue), which panics on a closed channel;
\* s.conns = nil.
ShutdownCloseQueue ==
    /\ Alive /\ sPc = "closeConns" /\ sIdx > Len(conns)
    /\ IF queueClosed
        THEN /\ crashed' = "close of closed channel"
             /\ UNCHANGED <<queueClosed, conns, sPc, sIdx>>
        ELSE /\ queueClosed' = TRUE
             /\ conns' = <<>>
             /\ sPc' = "terminate"
             /\ sIdx' = 1
             /\ UNCHANGED crashed
    /\ UNCHANGED <<connState, acceptOf, qlen, queue, handlers, hcfg, shutDown, hq, hqClosed,
        hEnd, wPc, wGot, dPc, dMsg, dOrig, dChain, dIdx, rPc, rMsg, nMsgs, calls,
        enqLog, parse, fh, rot, call>>

\* The terminate loop of Shutdown has passed the last handler.
TerminateLoopDone_SkipsLast(idx, hs) == idx >= Len(hs)

TerminateLoopDone(idx, hs) == idx > Len(hs)

\* Shutdown, lines 298-300, the call h.Handle(nil):  a plain handler returns;
\* a BaseHandler closes its queue (lines 38-39) and then waits on h.end.
ShutdownTerminate ==
    /\ Alive /\ sPc = "terminate" /\ ~TerminateLoopDone(sIdx, handlers)
    /\ LET h == handlers[sIdx] IN
        /\ calls' = Append(calls, [h |-> h, arg |-> NilMsg, out |-> NilMsg])
        /\ IF hcfg[h].kind = "base"
            THEN /\ hqClosed' = [hqClosed EXCEPT ![h] = TRUE]
                 /\ sPc' = "waitEnd"
                 /\ UNCHANGED sIdx
            ELSE /\ sIdx' = sIdx + 1
                 /\ UNCHANGED <<hqClosed, sPc>>
    /\ UNCHANGED <<conns, connState, acceptOf, qlen, queue, queueClosed, handlers, hcfg,
        shutDown, hq, hEnd, wPc, wGot, dPc, dMsg, dOrig, dChain, dIdx, rPc, rMsg,
        nMsgs, crashed, enqLog, parse, fh, rot, call>>

\* The receive <-h.end can proceed: the worker has closed h.end.
EndSignalled_NoWait(h) == TRUE

EndSignalled(h) == hEnd[h]

\* BaseHandler.Handle(nil), lines 40-41: <-h.end, return nil.
ShutdownWaitEnd ==
    /\ Alive /\ sPc = "waitEnd" /\ EndSignalled(handlers[sIdx])
    /\ sPc' = "terminate"
    /\ sIdx' = sIdx + 1
    /\ UNCHANGED <<conns, connState, acceptOf, qlen, queue, queueClosed, handlers, hcfg,
        shutDown, hq, hqClosed, hEnd, wPc, wGot, dPc, dMsg, dOrig, dChain, dIdx, rPc,
        rMsg, nMsgs, crashed, calls, enqLog, parse, fh, rot, call>>

\* Shutdown, line 300-301: the loop is over; the write s.handlers = nil begins.
ShutdownLoopEnd ==
    /\ Alive /\ sPc = "terminate" /\ TerminateLoopDone(sIdx, handlers)
    /\ sPc' = "clearHandlers"
    /\ UNCHANGED <<conns, connState, acceptOf, qlen, queue, queueClosed, handlers, hcfg,
        shutDown, hq, hqClosed, hEnd, wPc, wGot, sIdx, dPc, dMsg, dOrig, dChain, dIdx,
        rPc, rMsg, nMsgs, crashed, calls, enqLog, parse, fh, rot, call>>

\* Shutdown, lines 301-302: s.handlers = nil is complete; Shutdown returns.
ShutdownReturn ==
    /\ Alive /\ sPc = "clearHandlers"
    /\ handlers' = <<>>
    /\ sPc' = "returned"
    /\ UNCHANGED <<conns, connState, acceptOf, qlen, queue, queueClosed, hcfg, shutDown, hq,
        hqClosed, hEnd, wPc, wGot, sIdx, dPc, dMsg, dOrig, dChain, dIdx, rPc, rMsg,
        nMsgs, crashed, calls, enqLog, parse, fh, rot, call>>

\* ------------------------------------------------------------------ specification
Next ==
    \/ \E cfg \in HandlerConfigs : AddHandler(cfg)
    \/ \E f \in FilterNames, ok \in BOOLEAN : ListenFilter(f, ok)
    \/ \E l \in ListenerIds : ReceiverRead(l)
    \/ \E l \in ListenerIds : ReceiverReadError(l)
    \/ \E l \in ListenerIds : ReceiverSend(l)
    \/ \E h \in HandlerIds : WorkerGet(h)
    \/ \E h \in HandlerIds : End(h)
    \/ DispatchRecv
    \/ DispatchExit
    \/ DispatchHandlePlain
    \/ DispatchHandleBase
    \/ ShutdownStart
    \/ ShutdownCloseConn
    \/ ShutdownCloseQueue
    \/ ShutdownTerminate
    \/ ShutdownWaitEnd
    \/ ShutdownLoopEnd
    \/ ShutdownReturn

Spec == Init /\ [][Next]_vars

\* Scheduling: the dispatch goroutine keeps running while it can take a step
\* (handlers return); a receiver blocked in its send is served once the
\* buffer has room (the runtime queues blocked senders first come, first
\* served, so a sender that can proceed again and again does proceed).
Fairness ==
    /\ WF_vars(DispatchRecv)
    /\ WF_vars(DispatchHandlePlain)
    /\ WF_vars(DispatchHandleBase)
    /\ \A l \in ListenerIds : SF_vars(ReceiverSend(l))

FairSpec == Init /\ [][Next]_vars /\ Fairness

\* ================================================================== part 2: the parser
\* ------------------------------------------------------------------ strings
\* Positions and lengths count bytes from 0, as in the source.
\* The bytes below 32 or above 126 that occur in the datagrams.
NonPrintable == {"NUL", "CR", "LF", "EF", "BB", "BF"}

\* s[a:]
From(str, a) == SubSeq(str, a + 1, Len(str))

\* s[:b]
Upto(str, b) == SubSeq(str, 1, b)

\* s[a:b]
Slice(str, a, b) == SubSeq(str, a + 1, b)

\* strings.HasPrefix, strings.HasSuffix
HasPrefix(str, pre) == Len(str) >= Len(pre) /\ Upto(str, Len(pre)) = pre

HasSuffix(str, suf) == Len(str) >= Len(suf) /\ From(str, Len(str) - Len(suf)) = suf

\* bytes.IndexByte, strings.IndexByte: the first position of c, or -1.
IndexByte(str, c) ==
    IF \E i \in DOMAIN str : str[i] = c
    THEN (CHOOSE i \in DOMAIN str : str[i] = c /\ \A j \in 1..(i - 1) : str[j] # c) - 1
    ELSE -1

isNulCrLf(c) == c \in {"NUL", "CR", "LF"}

\* bytes.TrimRightFunc(pkt, isNulCrLf)
RECURSIVE TrimRightFunc(_)
TrimRightFunc(bs) ==
    IF bs # <<>> /\ isNulCrLf(bs[Len(bs)])
    THEN TrimRightFunc(Upto(bs, Len(bs) - 1))
    ELSE bs

\* unicode.IsSpace on the bytes that occur.
IsSpace(c) == c \in {" ", "CR", "LF"}

\* strings.TrimLeftFunc(s, unicode.IsSpace)
RECURSIVE TrimLeftFunc(_)
TrimLeftFunc(str) ==
    IF str # <<>> /\ IsSpace(str[1]) THEN TrimLeftFunc(Tail(str)) ELSE str

\* strings.Split(s, " ")
RECURSIVE Split(_)
Split(str) ==
    LET sp == IndexByte(str, " ") IN
    IF sp < 0 THEN <<str>> ELSE <<Upto(str, sp)>> \o Split(From(str, sp + 1))

\* strconv.Atoi on texts of a few bytes: an optional sign and decimal digits.
Digits == {"0", "1", "2", "3", "4", "5", "6", "7", "8", "9"}

DigitValue(c) ==
    CASE c = "0" -> 0 [] c = "1" -> 1 [] c = "2" -> 2 [] c = "3" -> 3 [] c = "4" -> 4
      [] c = "5" -> 5 [] c = "6" -> 6 [] c = "7" -> 7 [] c = "8" -> 8 [] c = "9" -> 9

RECURSIVE DecimalValue(_)
DecimalValue(str) ==
    IF str = <<>> THEN 0
    ELSE DecimalValue(Upto(str, Len(str) - 1)) * 10 + DigitValue(str[Len(str)])

Atoi(str) ==
    LET signed == str # <<>> /\ str[1] \in {"+", "-"}
        body == IF signed THEN Tail(str) ELSE str
        ok == body # <<>> /\ \A i \in DOMAIN body : body[i] \in Digits
    IN [ok |-> ok,
        val |-> IF ~ok THEN 0
                ELSE IF signed /\ str[1] = "-" THEN 0 - DecimalValue(body)
                ELSE DecimalValue(body)]

\* nextSpace: the position of the first space; 0 when a byte outside 32..126
\* comes first; len(s) when there is neither.
nextSpace(str) ==
    LET stops == {i \in DOMAIN str : str[i] = " " \/ str[i] \in NonPrintable} IN
    IF stops = {} THEN Len(str)
    ELSE LET i == CHOOSE k \in stops : \A j \in stops : k <= j
         IN IF str[i] = " " THEN i - 1 ELSE 0

\* indexRune: the position of the first c that is not escaped with '\', or -1.
\* i is the next position to look at (from 1), esc the loop's flag.
RECURSIVE indexRuneFrom(_, _, _, _)
indexRuneFrom(str, c, i, esc) ==
    IF i > Len(str) THEN -1
    ELSE IF str[i] = "\\" THEN indexRuneFrom(str, c, i + 1, ~esc)
    ELSE IF str[i] = c /\ ~esc THEN i - 1
    ELSE indexRuneFrom(str, c, i + 1, FALSE)

indexRune(str, c) == indexRuneFrom(str, c, 1, FALSE)

\* findBOM: the position of the byte order mark EF BB BF at the first EF, or
\* -1; panic when bs[bom+1] or bs[bom+2] is read past the end of bs.
findBOM(bs) ==
    LET bom == IndexByte(bs, "EF") IN
    IF bom < 0 THEN [panic |-> FALSE, bom |-> -1]
    ELSE IF bom + 1 >= Len(bs) THEN [panic |-> TRUE, bom |-> -1]
    ELSE IF bs[bom + 2] # "BB" THEN [panic |-> FALSE, bom |-> -1]
    ELSE IF bom + 2 >= Len(bs) THEN [panic |-> TRUE, bom |-> -1]
    ELSE IF bs[bom + 3] # "BF" THEN [panic |-> FALSE, bom |-> -1]
    ELSE [panic |-> FALSE, bom |-> bom]

\* nextField: consumes "- " (the field is "-") or the text up to the next
\* space; panic when s[sp+1:] is taken with sp = len(s).
nextField(str) ==
    IF HasPrefix(str, <<"-", " ">>)
    THEN [panic |-> FALSE, s |-> From(str, 2), set |-> TRUE, val |-> <<"-">>]
    ELSE LET sp == nextSpace(str) IN
         IF 0 < sp /\ sp <= Len(str) /\ str[1] # "["
         THEN IF sp + 1 > Len(str)
              THEN [panic |-> TRUE, s |-> str, set |-> TRUE, val |-> Upto(str, sp)]
              ELSE [panic |-> FALSE, s |-> From(str, sp + 1), set |-> TRUE,
                    val |-> Upto(str, sp)]
         ELSE [panic |-> FALSE, s |-> str, set |-> FALSE, val |-> <<>>]

\* The priority of a datagram without a priority field.
DefaultPriority == 13

\* a | b and a & b on non-negative integers, bit by bit.
RECURSIVE BitOr(_, _)
BitOr(a, b) ==
    IF a = 0 THEN b
    ELSE IF b = 0 THEN a
    ELSE (IF a % 2 = 1 \/ b % 2 = 1 THEN 1 ELSE 0) + 2 * BitOr(a \div 2, b \div 2)

RECURSIVE BitAnd(_, _)
BitAnd(a, b) ==
    IF a = 0 \/ b = 0 THEN 0
    ELSE (IF a % 2 = 1 /\ b % 2 = 1 THEN 1 ELSE 0) + 2 * BitAnd(a \div 2, b \div 2)

\* Severity(prio & 0x07): the low byte of prio (two's complement) decides.
SeverityOf_Mask3(prio) == BitAnd(prio % 256, 3)

SeverityOf(prio) == BitAnd(prio % 256, 7)

\* Facility(prio >> 3): the arithmetic shift, converted to a byte.
FacilityOf(prio) == (prio \div 8) % 256

\* Message.Priority: int(m.Facility)<<3 | int(m.Severity).
Priority(m) == BitOr(m.facility * 8, m.severity)

\* ------------------------------------------------------------------ parseMessage
\* parseMessage, lines 114-159, up to the call of the sub-parser.
ParseMessage ==
    /\ parse.pc = "parseMessage"
    /\ LET bs == TrimRightFunc(parse.pkt)
           fb == findBOM(bs)
           content == IF fb.bom >= 0 THEN From(bs, fb.bom + 3) ELSE <<>>
           s0 == IF fb.bom >= 0 THEN Upto(bs, fb.bom) ELSE bs
           n == IF s0 # <<>> /\ s0[1] = "<" THEN 1 + IndexByte(Tail(s0), ">") ELSE 0
           hasPri == n > 1 /\ n < 5
           p == Atoi(Slice(s0, 1, n))
           prio == IF hasPri THEN p.val ELSE DefaultPriority
           s1 == IF hasPri THEN From(s0, n + 1) ELSE s0
           m == [EmptyMessage EXCEPT !.content = content,
                                     !.severity = SeverityOf(prio),
                                     !.facility = FacilityOf(prio)]
       IN parse' =
            IF fb.panic \/ s0 = <<>>
            THEN [parse EXCEPT !.pc = "panic"]
            ELSE IF hasPri /\ ~p.ok
            THEN [parse EXCEPT !.pc = "error"]
            ELSE IF HasPrefix(s1, <<"1", " ">>)
            THEN [parse EXCEPT !.pc = "rfc5424", !.s = From(s1, 2), !.hasBOM = fb.bom >= 0,
                               !.m = [m EXCEPT !.version = 1]]
            ELSE [parse EXCEPT !.pc = "rfc3164", !.s = s1, !.hasBOM = fb.bom >= 0, !.m = m]
    /\ UNCHANGED <<serverVars, fh, rot, call>>

\* ------------------------------------------------------------------ parseRFC5424Message
\* The times of the messages: 15:30:00 UTC on this day of October 2023; 0 is
\* the zero time.
Times == {6, 26}

\* t.Format(time.RFC3339): a text without space, written as one element.
RFC3339(t) == IF t = 6 THEN <<"2023-10-06T15:30:00Z">> ELSE <<"2023-10-26T15:30:00Z">>

RFC3339Texts == {RFC3339(t) : t \in Times}

\* fmt's %d of a non-negative number.
RECURSIVE Itoa(_)
Itoa(n) ==
    LET d == <<"0", "1", "2", "3", "4", "5", "6", "7", "8", "9">>[(n % 10) + 1] IN
    IF n < 10 THEN <<d>> ELSE Itoa(n \div 10) \o <<d>>

\* t.Format(rfc3164LayoutNoYear), "Jan _2 15:04:05": the day of the month is
\* padded with a space to two bytes.
Layout3164(t) ==
    <<"O", "c", "t", " ">> \o (IF t < 10 THEN <<" ">> \o Itoa(t) ELSE Itoa(t))
        \o <<" ", "1", "5", ":", "3", "0", ":", "0", "0">>

\* The same time in the layout "2006 Jan _2 15:04:05".
Layout3164WithYear(t) == <<"2", "0", "2", "3", " ">> \o Layout3164(t)

\* A time.Time: the instant, in hours since the start of October 2023 UTC,
\* and the offset of its zone in hours.  The wall clock reads instant +
\* offset.  15:30:00 UTC on day t:
TimeOf(t) == [instant |-> t * 24 + 15, offset |-> 0]

\* The time that time.Parse and iso8601.ParseString read from a text they
\* accept: a layout without zone is read as UTC; another text than those of
\* Times stands for the zero time.
TimeRead(text) ==
    IF \E t \in Times : text \in {Layout3164(t), Layout3164WithYear(t), RFC3339(t)}
    THEN TimeOf(CHOOSE t \in Times :
                    text \in {Layout3164(t), Layout3164WithYear(t), RFC3339(t)})
    ELSE [instant |-> 0, offset |-> 0]

\* Whether time.Parse may accept the 15 or 20 bytes: it accepts what the
\* layouts render, and may accept or reject another text.
TimeParseOutcomes(text) ==
    IF \E t \in Times : text \in {Layout3164(t), Layout3164WithYear(t)} THEN {TRUE}
    ELSE BOOLEAN

\* t.In(time.FixedZone(name, tz*3600)): the same instant in the zone.
In_KeepsWallClock(t, tz) == [instant |-> t.instant - tz, offset |-> tz]

In(t, tz) == [instant |-> t.instant, offset |-> tz]

\* Whether iso8601.ParseString may accept the text: the library is not part
\* of the repository; it accepts what time.RFC3339 renders, rejects the
\* empty text and every other text with a byte that is no digit, and may
\* accept or reject a text of digits.
TimestampOutcomes(str) ==
    IF str \in RFC3339Texts THEN {TRUE}
    ELSE IF str # <<>> /\ \A i \in DOMAIN str : str[i] \in Digits THEN BOOLEAN
    ELSE {FALSE}

\* parseRFC5424Message, lines 239-255: the timestamp and the four header fields.
ParseRFC5424Header ==
    /\ parse.pc = "rfc5424"
    /\ LET s0 == parse.s
           sp == IndexByte(s0, " ")
       IN \E tsOk \in (IF ~HasPrefix(s0, <<"-", " ">>) /\ sp >= 0
                       THEN TimestampOutcomes(Upto(s0, sp)) ELSE {FALSE}) :
            LET s1 == IF HasPrefix(s0, <<"-", " ">>) THEN From(s0, 2)
                      ELSE IF tsOk THEN From(s0, sp + 1) ELSE s0
                f1 == nextField(s1)
                f2 == nextField(f1.s)
                f3 == nextField(f2.s)
                f4 == nextField(f3.s)
            IN parse' =
                 IF f1.panic \/ f2.panic \/ f3.panic \/ f4.panic
                 THEN [parse EXCEPT !.pc = "panic"]
                 ELSE [parse EXCEPT !.pc = "sd", !.s = f4.s,
                        !.m = [parse.m EXCEPT !.tsParsed = tsOk,
                                              !.timestamp = IF tsOk THEN Upto(s0, sp)
                                                            ELSE <<>>,
                                              !.clock = IF tsOk THEN TimeRead(Upto(s0, sp))
                                                        ELSE parse.m.clock,
                                              !.hostname = f1.val,
                                              !.application = f2.val,
                                              !.procID = f3.val,
                                              !.msgID = f4.val]]
    /\ UNCHANGED <<serverVars, fh, rot, call>>

\* parseRFC5424Message, lines 257-262: "- " is the NILVALUE; at a '[' the scan
\* starts with the first unescaped ']'.
ParseStructuredData ==
    /\ parse.pc = "sd"
    /\ parse' =
        IF HasPrefix(parse.s, <<"-", " ">>)
        THEN [parse EXCEPT !.pc = "tail", !.s = From(parse.s, 2), !.m.data = <<"-">>]
        ELSE IF HasPrefix(parse.s, <<"[">>)
        THEN LET r == indexRune(parse.s, "]") IN
             [parse EXCEPT !.pc = IF r >= 0 THEN "sdloop" ELSE "tail", !.r = r]
        ELSE [parse EXCEPT !.pc = "tail"]
    /\ UNCHANGED <<serverVars, fh, rot, call>>

\* One iteration of the loop for r >= 0, lines 262-281.
ScanStep(st) ==
    LET str == st.s
        r == st.r
    IN IF r = Len(str) - 1
       THEN [st EXCEPT !.pc = "tail", !.m.data = str, !.s = From(str, r + 1)]
       ELSE IF 0 < r /\ r < Len(str)
       THEN LET l == indexRune(From(str, r), "[") IN
            IF l > 0
            THEN LET r2 == indexRune(From(str, r + l), "]") IN
                 IF r2 >= 0 THEN [st EXCEPT !.r = r + r2 + l] ELSE st
            ELSE LET rest == From(str, r + 2)
                     rn == indexRune(rest, "]")
                 IN [st EXCEPT !.pc = IF rn >= 0 THEN "sdloop" ELSE "tail",
                               !.m.data = Upto(str, r + 1), !.s = rest, !.r = rn]
       ELSE st

ParseScan ==
    /\ parse.pc = "sdloop"
    /\ parse' = ScanStep(parse)
    /\ UNCHANGED <<serverVars, fh, rot, call>>

\* parseRFC5424Message, lines 284-291: without a byte order mark the rest,
\* less one leading space, is the content.
ParseContent ==
    /\ parse.pc = "tail"
    /\ parse' =
        IF parse.hasBOM THEN [parse EXCEPT !.pc = "done"]
        ELSE LET rest == IF HasPrefix(parse.s, <<" ">>) THEN From(parse.s, 1) ELSE parse.s
             IN [parse EXCEPT !.pc = "done", !.s = rest, !.m.content = rest]
    /\ UNCHANGED <<serverVars, fh, rot, call>>

\* ------------------------------------------------------------------ parseRFC3164Message
\* The host and tag part before the colon, lines 214-232.
HostAndTag_SingleWordTag(m, pre) ==
    LET words == Split(pre)
        last == words[Len(words)]
        l == IndexByte(last, "[")
        withHost == [m EXCEPT !.hostname = words[1]]
    IN IF HasSuffix(last, <<"]">>) /\ l > 0
       THEN [withHost EXCEPT !.application = Upto(last, l),
                             !.procID = Slice(last, l + 1, Len(last) - 1)]
       ELSE [withHost EXCEPT !.application = last]

HostAndTag(m, pre) ==
    LET words == Split(pre)
        last == words[Len(words)]
        l == IndexByte(last, "[")
        withHost == [m EXCEPT !.hostname = words[1]]
    IN IF Len(words) <= 1 THEN withHost
       ELSE IF HasSuffix(last, <<"]">>) /\ l > 0
       THEN [withHost EXCEPT !.application = Upto(last, l),
                             !.procID = Slice(last, l + 1, Len(last) - 1)]
       ELSE [withHost EXCEPT !.application = last]

\* parseRFC3164Message, lines 168-234.  time.Parse may accept or reject the
\* 15 or 20 bytes before the space.
ParseRFC3164Message ==
    /\ parse.pc = "rfc3164"
    /\ LET s0 == TrimLeftFunc(parse.s)
           noYear == Len(s0) > 15 /\ s0[16] = " "
           withYear == ~noYear /\ Len(s0) > 20 /\ s0[21] = " "
           stamp == IF noYear THEN Upto(s0, 15) ELSE Upto(s0, 20)
       IN \E tsOk \in (IF noYear \/ withYear THEN TimeParseOutcomes(stamp) ELSE {FALSE}) :
            LET s1 == IF ~tsOk THEN s0 ELSE IF noYear THEN From(s0, 15) ELSE From(s0, 20)
                s2 == TrimLeftFunc(s1)
                sp == nextSpace(s2)
                hasTZ == HasPrefix(s2, <<"T", "Z">>) /\ 0 < sp /\ sp <= Len(s2)
                tz == Atoi(Slice(s2, 2, sp))
                tzOk == hasTZ /\ tz.ok /\ 0 - 12 <= tz.val /\ tz.val <= 12
                s3 == IF hasTZ THEN From(s2, sp + 1) ELSE s2
                colon == indexRune(s3, ":")
                read == IF tsOk THEN TimeRead(stamp) ELSE parse.m.clock
                m1 == [parse.m EXCEPT !.tsParsed = tsOk,
                                      !.timestamp = IF ~tsOk THEN <<>> ELSE stamp,
                                      !.clock = IF tzOk THEN In(read, tz.val) ELSE read,
                                      !.tzSet = tzOk,
                                      !.tz = IF tzOk THEN tz.val ELSE 0]
            IN parse' =
                 IF hasTZ /\ sp + 1 > Len(s2)
                 THEN [parse EXCEPT !.pc = "panic"]
                 ELSE IF colon < 0
                 THEN [parse EXCEPT !.pc = "done", !.s = s3,
                                    !.m = [m1 EXCEPT !.content = s3]]
                 ELSE [parse EXCEPT !.pc = "done", !.s = Upto(s3, colon),
                                    !.m = HostAndTag([m1 EXCEPT !.content = From(s3, colon)],
                                                     Upto(s3, colon))]
    /\ UNCHANGED <<serverVars, fh, rot, call>>

\* ------------------------------------------------------------------ the datagrams
\* All sequences over S of length at most n.
BoundedSeq(S, n) == UNION {[1..k -> S] : k \in 0..n}

CoreBytes == {"<", ">", "1", " ", "-", "[", "]", ":", "NUL", "EF", "BB", "BF"}

ScanBytes == {"[", "]", " ", "a", "\\"}

\* A priority field: '<', one to MaxPriDigits digits, '>'.
PriorityFields ==
    {<<"<">> \o d \o <<">">> : d \in BoundedSeq(Digits, MaxPriDigits) \ {<<>>}}

\* What follows the priority field: nothing, an RFC 3164 text, an RFC 5424
\* header that ends inside a field.
PriorityTails == {<<>>, <<"a", ":">>, <<"1", " ", "a">>}

\* The byte order mark, the headers before it (RFC 5424 and RFC 3164) and
\* the texts after it.
BOM == <<"EF", "BB", "BF">>

MarkedHeaders ==
    {<<"1", " ">>, <<"1", " ", "-", " ">>, <<"<", "1", ">", "1", " ">>,
     <<"1", " ", "-", " ", "h", " ", "a", " ", "p", " ", "i", " ", "-", " ">>,
     <<":">>, <<"h", ":">>, <<"h", " ">>, <<"<", "1", ">", "h", " ", "a", ":">>}

MarkedTexts == {<<>>, <<"x">>, <<"x", ":", " ", "y">>}

\* RFC 3164 datagrams with a TZ token: with a timestamp (with and without
\* year) and without one; the token with an offset inside and outside
\* -12..12 and with a text that is no number; then host and tag, a single
\* word, or nothing.
ZoneTexts ==
    {<<"-", "6">>, <<"+", "2">>, <<"0">>, <<"1", "2">>, <<"-", "1", "2">>, <<"1", "3">>,
     <<"x">>}

ZonePackets ==
    {stamp \o <<"T", "Z">> \o z \o rest :
        stamp \in {<<>>} \cup {Layout3164(t) \o <<" ">> : t \in Times}
                    \cup {Layout3164WithYear(t) \o <<" ">> : t \in Times},
        z \in ZoneTexts,
        rest \in {<<>>, <<" ", "h", " ", "a", ":", " ", "x">>, <<" ", "h", ":">>, <<" ", "x">>}}

\* RFC 3164 datagrams without timestamp: a host and tag part of one, two
\* or three words, the last with and without a process id, a colon and a
\* text.
TagPackets ==
    {pre \o <<":", " ", "x">> :
        pre \in {<<"s", "u">>, <<"h", " ", "a">>, <<"h", " ", "m", " ", "a">>,
                 <<"h", " ", "a", "[", "1", "]">>, <<"a", "[", "1", "]">>,
                 <<"h", " ", "[", "1", "]">>, <<"h", " ", "a", "[", "1">>,
                 <<"h", " ", "a", "\\", ":", "b">>, <<"h", " ", "a", " ">>}}

\* A field '<' text '>' whose text has up to MaxPriText bytes: digits,
\* signs and letters.
PriorityTexts == BoundedSeq({"1", "9", "-", "+", "a"}, MaxPriText)

Packets ==
    BoundedSeq(CoreBytes, MaxPktLen) \cup
    {<<"1", " ">> \o body : body \in BoundedSeq(ScanBytes, MaxSDLen)} \cup
    {f \o t : f \in PriorityFields, t \in PriorityTails} \cup
    {h \o BOM \o t : h \in MarkedHeaders, t \in MarkedTexts} \cup
    {<<"<">> \o x \o <<">">> \o t : x \in PriorityTexts, t \in PriorityTails} \cup
    ZonePackets \cup TagPackets

\* The receiver has read datagram pkt and calls parseMessage(pkt).
ParseInit ==
    /\ NewServer(1)
    /\ \E pkt \in Packets :
        parse = ParseState("parseMessage", pkt, <<>>, FALSE, EmptyMessage, -1)
    /\ OthersIdle

ParseNext ==
    \/ ParseMessage
    \/ ParseRFC5424Header
    \/ ParseStructuredData
    \/ ParseScan
    \/ ParseContent
    \/ ParseRFC3164Message

ParseSpec == ParseInit /\ [][ParseNext]_vars

\* ================================================================== part 3: the FileHandler
\* ------------------------------------------------------------------ filenameMangler
\* A template is a sequence of pieces: a placeholder or a piece of text
\* without '%'.
hostnamePlaceholder == "%hostname%"

programNamePlaceholder == "%programname%"

\* strings.Index(template, placeholder) >= 0
Contains(template, piece) == \E i \in DOMAIN template : template[i] = piece

\* strings.ReplaceAll(name, placeholder, value)
ReplaceAll(str, piece, value) ==
    [i \in DOMAIN str |-> IF str[i] = piece THEN value ELSE str[i]]

newFilenameMangler(template) ==
    [HasHostname |-> Contains(template, hostnamePlaceholder),
     HasApplication |-> Contains(template, programNamePlaceholder),
     template |-> template]

ifBlank(str, d) == IF str \in {"", "-"} THEN d ELSE str

\* filenameMangler.id: the key of the open-file table.
id(fm, m) ==
    [Hostname |-> IF fm.HasHostname THEN m.hostname ELSE "",
     Application |-> IF fm.HasApplication THEN m.application ELSE ""]

\* filenameMangler.name: the path of the file.
name(fm, m) ==
    LET n1 == IF fm.HasHostname
              THEN ReplaceAll(fm.template, hostnamePlaceholder, ifBlank(m.hostname, "unknown"))
              ELSE fm.template
    IN IF fm.HasApplication
       THEN ReplaceAll(n1, programNamePlaceholder, ifBlank(m.application, "unknown"))
       ELSE n1

\* ------------------------------------------------------------------ FileHandler
\* The handler's filename template, and the hostnames of the messages.
FileTemplate == <<hostnamePlaceholder>>

Hostnames == {"", "-", "b"}

\* The message with hostname hn, as far as the file name depends on it.
FileMessage(hn) == [hostname |-> hn, application |-> ""]

\* The file ids: what filenameMangler.id makes of the messages (the hostname
\* that the template separates).
Keys == {id(newFilenameMangler(FileTemplate), FileMessage(hn)).Hostname : hn \in Hostnames}

\* The file that saveMessage opens for a message with file id k, and the
\* files of all messages.
PathOf(k) == name(newFilenameMangler(FileTemplate), FileMessage(k))

Paths == {PathOf(k) : k \in Keys}

\* A byte range of a file that was never written (it reads as zero bytes).
Hole == 0 - 1

\* The lines of a file after line n is written at offset at (the offsets
\* count lines: all lines are taken to be of one length): the file is
\* extended with a hole when the offset is past its end.
WriteAt(content, at, n) ==
    [i \in 1..(IF at + 1 > Len(content) THEN at + 1 ELSE Len(content)) |->
        IF i = at + 1 THEN n
        ELSE IF i <= Len(content) THEN content[i]
        ELSE Hole]

\* What one filesystem call of saveMessage may do.
IOOutcomes == {"none", "mkdir", "open", "write"}

\* fh.f is the open-file table h.f (isNil: the map is nil; ent[k]: the handle
\* stored under k, 0 for none); handles: the files os.OpenFile returned, in
\* order, each with its file id, whether it is still open and its file
\* offset; disk: per path whether the file exists and its lines (0: a line
\* from before the process started, n: the line of call number n); logged:
\* the errors given to the logger; calls: the history of the calls made to
\* the handler.
NewFileHandler(append, propagateAll, accept, old) ==
    [pc |-> "ready", append |-> append, propagateAll |-> propagateAll, accept |-> accept,
     isNil |-> FALSE, ent |-> [k \in Keys |-> 0], handles |-> <<>>,
     disk |-> [p \in Paths |-> [exists |-> p \in old,
                                content |-> IF p \in old THEN <<0>> ELSE <<>>]],
     logged |-> 0, calls |-> <<>>]

\* The keys that have a file in the open-file table.
OpenKeys(st) == {k \in Keys : st.ent[k] # 0}

\* closeFiles, lines 93-106: the range over the map visits the entries in any
\* order; each visited entry is deleted and its file closed; the first Close
\* that fails ends the loop with the error.  closed: the entries visited.
CloseOutcomes(st) ==
    IF st.isNil THEN {[closed |-> {}, err |-> FALSE]}
    ELSE {[closed |-> OpenKeys(st), err |-> FALSE]} \cup
         {[closed |-> c, err |-> TRUE] : c \in SUBSET OpenKeys(st) \ {{}}}

\* The handler after closeFiles with outcome o and checkErr on its result.
closeFiles(st, o) ==
    [st EXCEPT !.ent = [k \in Keys |-> IF k \in o.closed THEN 0 ELSE st.ent[k]],
               !.handles = [i \in DOMAIN st.handles |->
                    IF \E k \in o.closed : st.ent[k] = i
                    THEN [st.handles[i] EXCEPT !.open = FALSE]
                    ELSE st.handles[i]],
               !.logged = IF o.err THEN st.logged + 1 ELSE st.logged]

\* checkErr(err) is true and saveMessage returns, lines 115-123.
ReturnsEarly_Never(e) == FALSE

ReturnsEarly(e) == e \in {"mkdir", "open"}

\* os.OpenFile with O_WRONLY|O_CREATE|h.appendMode empties an existing file
\* unless the mode is O_APPEND.
OpenTruncates_Always(append) == TRUE

OpenTruncates(append) == ~append

\* The entry of the call history for a call of Handle, SigHup.
FileCall(op, key, accepted, e, attempt, wrote, out, entry) ==
    [op |-> op, key |-> key, accepted |-> accepted, err |-> e, attempt |-> attempt,
     wrote |-> wrote, out |-> out, entry |-> entry]

\* saveMessage(m), lines 108-131, for the message of call number n with file
\* id k, the filesystem answering with e.  The store h.f[id] = f panics when
\* the map is nil.
saveMessage(st, k, n, e) ==
    LET absent == st.ent[k] = 0
        early == absent /\ ReturnsEarly(e)
        created == absent /\ e \notin {"mkdir", "open"}
        hnd == Len(st.handles) + 1
        panics == absent /\ ~early /\ st.isNil
        writes == ~early /\ ~panics /\ e \notin {"write", "open", "mkdir"}
        p == PathOf(k)
        afterOpen == IF ~created THEN st.disk[p].content
                     ELSE IF OpenTruncates(st.append) THEN <<>>
                     ELSE st.disk[p].content
        f == IF created THEN hnd ELSE st.ent[k]
        opened == IF created
                  THEN Append(st.handles, [key |-> k, open |-> TRUE, pos |-> 0])
                  ELSE st.handles
        at == IF st.append THEN Len(afterOpen) ELSE opened[f].pos
    IN [st EXCEPT
         !.pc = IF panics THEN "panic" ELSE "ready",
         !.handles = IF writes THEN [opened EXCEPT ![f].pos = at + 1] ELSE opened,
         !.ent = IF absent /\ ~early /\ ~panics
                 THEN [st.ent EXCEPT ![k] = IF created THEN hnd ELSE 0 - 1]
                 ELSE st.ent,
         !.disk = [st.disk EXCEPT ![p] =
                     [exists |-> st.disk[p].exists \/ created,
                      content |-> IF writes THEN WriteAt(afterOpen, at, n) ELSE afterOpen]],
         !.logged = IF e # "none" /\ ~panics THEN st.logged + 1 ELSE st.logged]

\* FileHandler.Handle(m), lines 79-91, m non-nil.  e is the first error the
\* filesystem reports to the call: mkdir and open are called only when the
\* table has no file for k, and the write is not reached after a panic.
FileHandle(k, fac, e) ==
    /\ fh.pc = "ready" /\ Len(fh.calls) < MaxFileCalls
    /\ LET n == Len(fh.calls) + 1
           accepted == ApplyFilter(fh.accept, NewMessage(0, n, fac))
           absent == fh.ent[k] = 0
           st == IF accepted THEN saveMessage(fh, k, n, e) ELSE fh
       IN /\ accepted /\ absent => e \in IOOutcomes
          /\ accepted /\ absent /\ fh.isNil => e # "write"
          /\ accepted /\ ~absent => e \in {"none", "write"}
          /\ ~accepted => e = "none"
          /\ fh' = [st EXCEPT !.calls = Append(fh.calls,
                FileCall("handle", k, accepted, e, accepted /\ absent,
                         \E i \in DOMAIN st.disk[PathOf(k)].content :
                                st.disk[PathOf(k)].content[i] = n,
                         IF st.pc = "panic" THEN "panic"
                         ELSE IF accepted /\ ~fh.propagateAll THEN "nil" ELSE "m",
                         st.ent[k] # 0))]
    /\ UNCHANGED <<serverVars, parse, rot, call>>

\* FileHandler.Handle(nil), lines 80-81: checkErr(closeFiles()).
FileHandleNil ==
    /\ fh.pc = "ready" /\ Len(fh.calls) < MaxFileCalls
    /\ \E o \in CloseOutcomes(fh) :
        fh' = [closeFiles(fh, o) EXCEPT !.calls = Append(fh.calls,
                FileCall("nil", "", FALSE, IF o.err THEN "close" ELSE "none",
                         FALSE, FALSE, "nil", FALSE))]
    /\ UNCHANGED <<serverVars, parse, rot, call>>

\* FileHandler.SigHup, lines 70-77: closeFiles, then h.f = nil.
FileSigHup ==
    /\ fh.pc = "ready" /\ Len(fh.calls) < MaxFileCalls
    /\ \E o \in CloseOutcomes(fh) :
        LET st == IF fh.isNil THEN fh
                  ELSE [closeFiles(fh, o) EXCEPT !.isNil = TRUE,
                                                 !.ent = [k \in Keys |-> 0]]
        IN fh' = [st EXCEPT !.calls = Append(fh.calls,
                FileCall("sighup", "", FALSE, IF o.err THEN "close" ELSE "none",
                         FALSE, FALSE, "", FALSE))]
    /\ UNCHANGED <<serverVars, parse, rot, call>>

\* A FileHandler constructed with NewFileHandler and configured with
\* SetAccept and SetPropagateAll, over a directory that may hold log files of
\* an earlier run.
FileInit ==
    /\ NewServer(1)
    /\ parse = ParseIdle
    /\ rot = RotateIdle
    /\ call = CallIdle
    /\ \E append, propagateAll \in BOOLEAN, accept \in FilterNames, old \in SUBSET Paths :
        fh = NewFileHandler(append, propagateAll, accept, old)

FileNext ==
    \/ \E k \in Keys, fac \in Facilities, e \in IOOutcomes : FileHandle(k, fac, e)
    \/ FileHandleNil
    \/ FileSigHup

FileSpec == FileInit /\ [][FileNext]_vars

\* ================================================================== part 4: log rotation
\* The rotation of one log file path with retain = N >= 0.  The files are the
\* live file <path>, <path>.tmp and the archives <path>.i.gz; each holds 0
\* (it does not exist) or the number of the log content in it: a fresh live
\* file gets the next number, a rename moves the number, gzip copies it.
MaxArchive == MaxRetain + 1

NewRotation(mode, retain, live) ==
    [pc |-> "ready", mode |-> mode, retain |-> retain,
     live |-> live, tmp |-> 0, gz |-> [i \in 1..MaxArchive |-> 0],
     open |-> FALSE, tasks |-> <<>>, gen |-> live + 1,
     rotated |-> {}, archived |-> {}, logged |-> 0,
     before |-> [gz |-> [i \in 1..MaxArchive |-> 0], tmp |-> 0]]

\* The rotation tasks that have started and not ended.
ActiveTasks(st) == {t \in DOMAIN st.tasks : st.tasks[t].pc \notin {"done", "aborted"}}

\* A rotation task starts: its first step is the delete of <path>.N.gz.
\* before keeps what the archives and <path>.tmp held when it started.
SpawnRotation(st) ==
    [st EXCEPT !.tasks = Append(st.tasks, [pc |-> "delete", i |-> 0]),
               !.before = [gz |-> st.gz, tmp |-> st.tmp]]

\* After the renames down to i: the next rename, or the compression.
AfterShift(i) == IF i >= 1 THEN [pc |-> "shift", i |-> i] ELSE [pc |-> "gzip", i |-> 0]

\* The first archive index that is renamed: N-1.
FirstShift(n) == n - 1

\* One step of rotation task t: delete <path>.N.gz; for i from N-1 down to
\* 1 rename <path>.i.gz to <path>.(i+1).gz; gzip <path>.tmp into
\* <path>.1.gz; delete <path>.tmp.  A delete or rename of a file that does
\* not exist is an error that is logged; a gzip error aborts the rotation.
RotationStep(st, t) ==
    LET task == st.tasks[t]
        n == st.retain
    IN CASE task.pc = "delete" ->
              [st EXCEPT !.gz = [i \in 1..MaxArchive |-> IF i = n THEN 0 ELSE st.gz[i]],
                         !.logged = IF n >= 1 /\ st.gz[n] # 0 THEN @ ELSE @ + 1,
                         !.tasks[t] = AfterShift(FirstShift(n))]
         [] task.pc = "shift" ->
              [st EXCEPT !.gz = IF st.gz[task.i] = 0 THEN st.gz
                                ELSE [i \in 1..MaxArchive |->
                                        IF i = task.i + 1 THEN st.gz[task.i]
                                        ELSE IF i = task.i THEN 0
                                        ELSE st.gz[i]],
                         !.logged = IF st.gz[task.i] = 0 THEN @ + 1 ELSE @,
                         !.tasks[t] = AfterShift(task.i - 1)]
         [] task.pc = "gzip" ->
              IF st.tmp = 0
              THEN [st EXCEPT !.logged = @ + 1, !.tasks[t] = [pc |-> "aborted", i |-> 0]]
              ELSE [st EXCEPT !.gz[1] = st.tmp,
                              !.archived = @ \cup {st.tmp},
                              !.tasks[t] = [pc |-> "rmtmp", i |-> 0]]
         [] task.pc = "rmtmp" ->
              [st EXCEPT !.tmp = 0,
                         !.logged = IF st.tmp = 0 THEN @ + 1 ELSE @,
                         !.tasks[t] = [pc |-> "done", i |-> 0]]

\* A rotation task takes its next step.
RotateStep(t) ==
    /\ rot.pc = "ready"
    /\ t \in ActiveTasks(rot)
    /\ rot' = RotationStep(rot, t)
    /\ UNCHANGED <<serverVars, parse, fh, call>>

\* A rotation as the test makes it: a fresh <path>.tmp is written, then the
\* rotation runs; the next one starts when it has returned.
TestRotate ==
    /\ rot.pc = "ready" /\ rot.mode = "test"
    /\ ActiveTasks(rot) = {}
    /\ Len(rot.tasks) < MaxRotations
    /\ rot' = SpawnRotation([rot EXCEPT !.tmp = rot.gen, !.gen = rot.gen + 1,
                                        !.rotated = @ \cup {rot.gen}])
    /\ UNCHANGED <<serverVars, parse, fh, call>>

\* Write path: a message for the path.  Without a writer in the table: if
\* the path exists it is renamed to <path>.tmp and a background rotation
\* task is spawned; then the path is opened with O_TRUNC|O_CREATE.  The line
\* is written to the writer.
RotateWrite ==
    /\ rot.pc = "ready" /\ rot.mode = "handler"
    /\ IF rot.open THEN UNCHANGED rot
       ELSE /\ Len(rot.tasks) < MaxRotations
            /\ LET renamed == IF rot.live = 0 THEN rot
                              ELSE SpawnRotation([rot EXCEPT !.tmp = rot.live,
                                                             !.rotated = @ \cup {rot.live}])
               IN rot' = [renamed EXCEPT !.live = rot.gen, !.gen = rot.gen + 1,
                                         !.open = TRUE]
    /\ UNCHANGED <<serverVars, parse, fh, call>>

\* SIGHUP: the open file is closed and dropped from the table.
RotateSigHup ==
    /\ rot.pc = "ready" /\ rot.mode = "handler"
    /\ rot.open
    /\ rot' = [rot EXCEPT !.open = FALSE]
    /\ UNCHANGED <<serverVars, parse, fh, call>>

\* A handler with retain = N over a path that may exist from an earlier run,
\* or the test's handler over a path that does not exist.
RotateInit ==
    /\ NewServer(1)
    /\ parse = ParseIdle
    /\ fh = FileIdle
    /\ call = CallIdle
    /\ \E n \in 0..MaxRetain :
        \/ rot = NewRotation("test", n, 0)
        \/ \E live \in 0..1 : rot = NewRotation("handler", n, live)

RotateNext ==
    \/ TestRotate
    \/ RotateWrite
    \/ RotateSigHup
    \/ \E t \in 1..MaxRotations : RotateStep(t)

RotateSpec == RotateInit /\ [][RotateNext]_vars

\* ================================================================== part 5: library functions
\* ------------------------------------------------------------------ Message.Priority
Local7 == 23

Debug == 7

\* A Message with the given facility and severity.
PriorityInit ==
    /\ NewServer(1)
    /\ parse = ParseIdle /\ fh = FileIdle /\ rot = RotateIdle
    /\ \E f \in 0..MaxFacility, sv \in 0..MaxSeverity :
        call = [pc |-> "message", m |-> [facility |-> f, severity |-> sv],
                prio |-> 0, out |-> [facility |-> 0, severity |-> 0]]

\* p := m.Priority()
CallPriority ==
    /\ call.pc = "message"
    /\ call' = [call EXCEPT !.pc = "priority", !.prio = Priority(call.m)]
    /\ UNCHANGED <<serverVars, parse, fh, rot>>

\* parseMessage, lines 149-150, applied to p.
DecodePriority ==
    /\ call.pc = "priority"
    /\ call' = [call EXCEPT !.pc = "decoded",
                            !.out = [facility |-> FacilityOf(call.prio),
                                     severity |-> SeverityOf(call.prio)]]
    /\ UNCHANGED <<serverVars, parse, fh, rot>>

PriorityNext == CallPriority \/ DecodePriority

PrioritySpec == PriorityInit /\ [][PriorityNext]_vars

\* ------------------------------------------------------------------ names and filters
\* A text is a sequence of tokens: a token is ".", ",", "*" or a run of
\* letters and digits; tokens that follow each other without "." or ","
\* between them form one longer word.
\* strings.Split(text, sep): the words between the separators.
RECURSIVE SplitOn(_, _)
SplitOn(text, sep) ==
    LET i == IndexByte(text, sep) IN
    IF i < 0 THEN <<text>> ELSE <<Upto(text, i)>> \o SplitOn(From(text, i + 1), sep)

facToStr == <<"kern", "user", "mail", "daemon", "auth", "syslog", "lpr", "news", "uucp",
    "cron", "authpriv", "ftp", "ntp", "logaudit", "logalert", "clock", "local0",
    "local1", "local2", "local3", "local4", "local5", "local6", "local7">>

sevToStr == <<"emerg", "alert", "crit", "err", "warning", "notice", "info", "debug">>

\* The loop over a name table: the index (from 0) of the first entry that
\* equals the word, or -1.
TableIndex(table, word) ==
    IF \E i \in DOMAIN table : <<table[i]>> = word
    THEN (CHOOSE i \in DOMAIN table : <<table[i]>> = word) - 1
    ELSE -1

\* An error value: the word it names and its text; the errors of
\* errors.Join are kept in order, <<>> is the nil error.
ErrorOf(word, what) == <<[name |-> word, what |-> what]>>

ParseFacility(word) ==
    LET i == TableIndex(facToStr, word) IN
    IF i >= 0 THEN [val |-> i, err |-> <<>>]
    ELSE [val |-> 0, err |-> ErrorOf(word, "unknown facility")]

\* The aliases of the switch statement.
SeverityAlias(word) ==
    IF word = <<"warn">> THEN 4 ELSE IF word = <<"error">> THEN 3 ELSE -1

ParseSeverity(word) ==
    LET i == TableIndex(sevToStr, word)
        a == SeverityAlias(word)
    IN IF i >= 0 THEN [val |-> i, err |-> <<>>]
       ELSE IF a >= 0 THEN [val |-> a, err |-> <<>>]
       ELSE [val |-> 0, err |-> ErrorOf(word, "unknown severity")]

\* The loops of ParseFacilities and ParseSeverities over the words: the
\* values so far, or nil and the error of the first word that fails.
RECURSIVE FacilityWords(_, _)
FacilityWords(words, acc) ==
    IF words = <<>> THEN [list |-> acc, err |-> <<>>]
    ELSE LET r == ParseFacility(Head(words)) IN
         IF r.err # <<>> THEN [list |-> <<>>, err |-> r.err]
         ELSE FacilityWords(Tail(words), Append(acc, r.val))

RECURSIVE SeverityWords(_, _)
SeverityWords(words, acc) ==
    IF words = <<>> THEN [list |-> acc, err |-> <<>>]
    ELSE LET r == ParseSeverity(Head(words)) IN
         IF r.err # <<>> THEN [list |-> <<>>, err |-> r.err]
         ELSE SeverityWords(Tail(words), Append(acc, r.val))

ParseFacilities(list) == FacilityWords(SplitOn(list, ","), <<>>)

ParseSeverities(list) == SeverityWords(SplitOn(list, ","), <<>>)

\* Filters as values: AcceptEverything, Facilities.Filter, Severities.Filter,
\* All of two filters; NilFilter is the nil func.
NilFilter == [kind |-> "nil", facs |-> <<>>, sevs |-> <<>>]

AcceptEverything == [kind |-> "everything", facs |-> <<>>, sevs |-> <<>>]

FacilitiesFilter(fs) == [kind |-> "facilities", facs |-> fs, sevs |-> <<>>]

SeveritiesFilter(ss) == [kind |-> "severities", facs |-> <<>>, sevs |-> ss]

All(fs, ss) == [kind |-> "all", facs |-> fs, sevs |-> ss]

InList(list, v) == \E i \in DOMAIN list : list[i] = v

\* Calling the filter f on message m.
FilterAccepts(f, m) ==
    CASE f.kind = "everything" -> TRUE
      [] f.kind = "facilities" -> InList(f.facs, m.facility)
      [] f.kind = "severities" -> InList(f.sevs, m.severity)
      [] f.kind = "all" -> InList(f.facs, m.facility) /\ InList(f.sevs, m.severity)

\* ParsePriorityFilter, line 161: the test for a malformed text.
InvalidParts_OnlyCount(parts) == Len(parts) # 2

InvalidParts(parts) == Len(parts) # 2 \/ parts[1] = <<>> \/ parts[2] = <<>>

\* ParsePriorityFilter, lines 159-182: the filter and the error it returns.
ParsePriorityFilter(pri) ==
    LET parts == SplitOn(pri, ".") IN
    IF InvalidParts(parts)
    THEN [filter |-> NilFilter, err |-> ErrorOf(pri, "invalid priority filter")]
    ELSE LET fs == ParseFacilities(parts[1])
             ss == ParseSeverities(parts[2])
         IN IF parts[1] = <<"*">> /\ parts[2] = <<"*">>
            THEN [filter |-> AcceptEverything, err |-> <<>>]
            ELSE IF parts[1] # <<"*">> /\ parts[2] # <<"*">>
            THEN IF fs.err # <<>> \/ ss.err # <<>>
                 THEN [filter |-> NilFilter, err |-> fs.err \o ss.err]
                 ELSE [filter |-> All(fs.list, ss.list), err |-> <<>>]
            ELSE IF parts[1] = <<"*">>
            THEN [filter |-> SeveritiesFilter(ss.list), err |-> ss.err]
            ELSE [filter |-> FacilitiesFilter(fs.list), err |-> fs.err]

\* The tokens of the filter texts and the messages the filters are called on.
FilterTokens == {".", ",", "*", "user", "info", "warn", "foo"}

FilterMessages == {[facility |-> f, severity |-> sv] : f \in {0, 1}, sv \in {4, 6}}

FilterInit ==
    /\ NewServer(1)
    /\ parse = ParseIdle /\ fh = FileIdle /\ rot = RotateIdle
    /\ \E text \in BoundedSeq(FilterTokens, MaxFilterLen) :
        call = [pc |-> "text", text |-> text, filter |-> NilFilter, err |-> <<>>,
                m |-> [facility |-> 0, severity |-> 0], accepted |-> FALSE]

\* f, err := ParsePriorityFilter(text)
CallParsePriorityFilter ==
    /\ call.pc = "text"
    /\ LET r == ParsePriorityFilter(call.text) IN
       call' = [call EXCEPT !.pc = "parsed", !.filter = r.filter, !.err = r.err]
    /\ UNCHANGED <<serverVars, parse, fh, rot>>

\* f(m), when ParsePriorityFilter returned no error.
CallFilter(m) ==
    /\ call.pc = "parsed" /\ call.err = <<>>
    /\ call' = [call EXCEPT !.pc = "applied", !.m = m,
                            !.accepted = FilterAccepts(call.filter, m)]
    /\ UNCHANGED <<serverVars, parse, fh, rot>>

FilterNext ==
    \/ CallParsePriorityFilter
    \/ \E m \in FilterMessages : CallFilter(m)

FilterSpec == FilterInit /\ [][FilterNext]_vars

\* The names ParseSeverities is called with, joined by commas.
SeverityTokens == {",", "emerg", "alert", "crit", "err", "warning", "notice", "info",
    "debug", "warn", "error", "panic", "foo"}

SeveritiesInit ==
    /\ NewServer(1)
    /\ parse = ParseIdle /\ fh = FileIdle /\ rot = RotateIdle
    /\ \E text \in BoundedSeq(SeverityTokens, MaxListLen) :
        call = [pc |-> "list", text |-> text, list |-> <<>>, err |-> <<>>]

\* ss, err := ParseSeverities(text)
CallParseSeverities ==
    /\ call.pc = "list"
    /\ LET r == ParseSeverities(call.text) IN
       call' = [call EXCEPT !.pc = "severities", !.list = r.list, !.err = r.err]
    /\ UNCHANGED <<serverVars, parse, fh, rot>>

SeveritiesNext == CallParseSeverities

SeveritiesSpec == SeveritiesInit /\ [][SeveritiesNext]_vars

\* ------------------------------------------------------------------ Message.Format
\* strings.Join(h, sep)
RECURSIVE Join(_, _)
Join(h, sep) ==
    IF h = <<>> THEN <<>>
    ELSE IF Len(h) = 1 THEN h[1]
    ELSE h[1] \o sep \o Join(Tail(h), sep)

\* append(h, field) for a field that is not empty.
AppendIfSet(h, field) == IF field # <<>> THEN Append(h, field) ELSE h

\* Message.format, lines 49-86: the header fields to be joined.
format(m, pri, version) ==
    LET t == IF m.timestamp = 0 THEN m.time ELSE m.timestamp
        h0 == IF version = 0 THEN <<pri \o Layout3164(t)>>
              ELSE <<pri \o Itoa(version) \o <<" ">> \o RFC3339(t)>>
        h1 == AppendIfSet(h0, m.hostname)
        h2 == IF version = 0 /\ m.application # <<>> /\ m.procID # <<>>
              THEN Append(h1, m.application \o <<"[">> \o m.procID \o <<"]">>)
              ELSE AppendIfSet(AppendIfSet(h1, m.application), m.procID)
        h3 == AppendIfSet(h2, m.msgID)
    IN AppendIfSet(h3, m.data)

leadingSpaceIfNotColon(str) == IF HasPrefix(str, <<":">>) THEN str ELSE <<" ">> \o str

\* Message.Format, lines 88-93.
Format(m) ==
    LET pri == <<"<">> \o Itoa(Priority(m)) \o <<">">> IN
    Join(format(m, pri, m.version), <<" ">>) \o leadingSpaceIfNotColon(m.content)

\* The Messages that are rendered: user.notice or local4.notice, received
\* on the 26th.
FormatMessages ==
    [facility : {1, 20}, severity : {5}, version : {0, 1}, time : {26},
     timestamp : {0} \cup Times, hostname : {<<>>, <<"h">>},
     application : {<<>>, <<"a">>}, procID : {<<>>, <<"p">>}, msgID : {<<>>, <<"i">>},
     data : {<<>>, <<"[", "d", "]">>}, content : {<<>>, <<"c">>, <<":", "c">>}]

FormatInit ==
    /\ NewServer(1)
    /\ parse = ParseIdle /\ fh = FileIdle /\ rot = RotateIdle
    /\ \E m \in FormatMessages : call = [pc |-> "message", m |-> m, out |-> <<>>]

\* out := m.Format()
CallFormat ==
    /\ call.pc = "message"
    /\ call' = [call EXCEPT !.pc = "formatted", !.out = Format(call.m)]
    /\ UNCHANGED <<serverVars, parse, fh, rot>>

\* parseMessage([]byte(out)) for an RFC 5424 rendering.
CallParseMessage ==
    /\ call.pc = "formatted" /\ call.m.version >= 1
    /\ call' = [call EXCEPT !.pc = "parsing"]
    /\ parse' = ParseState("parseMessage", call.out, <<>>, FALSE, EmptyMessage, -1)
    /\ UNCHANGED <<serverVars, fh, rot>>

FormatNext ==
    \/ CallFormat
    \/ CallParseMessage
    \/ ParseMessage
    \/ ParseRFC5424Header
    \/ ParseStructuredData
    \/ ParseScan
    \/ ParseContent

FormatSpec == FormatInit /\ [][FormatNext]_vars

\* ------------------------------------------------------------------ filenameMangler calls
\* The pieces of the templates and the messages that are filed.
TemplatePieces ==
    {"/var/log/", hostnamePlaceholder, programNamePlaceholder, "%facility%", "%severity%"}

ManglerMessages ==
    [hostname : {"", "-", "myhost"}, application : {"", "myapp"},
     facility : {0, 3}, severity : {4}]

ManglerInit ==
    /\ NewServer(1)
    /\ parse = ParseIdle /\ fh = FileIdle /\ rot = RotateIdle
    /\ \E template \in BoundedSeq(TemplatePieces, MaxTemplateLen) :
       \E m1, m2 \in ManglerMessages :
        call = [pc |-> "template", template |-> template, m |-> <<m1, m2>>,
                fm |-> newFilenameMangler(<<>>),
                ids |-> <<id(newFilenameMangler(<<>>), m1), id(newFilenameMangler(<<>>), m1)>>,
                names |-> <<<<>>, <<>>>>]

\* NewFileHandler, line 38: fm := newFilenameMangler(template)
CallNewFilenameMangler ==
    /\ call.pc = "template"
    /\ call' = [call EXCEPT !.pc = "mangler", !.fm = newFilenameMangler(call.template)]
    /\ UNCHANGED <<serverVars, parse, fh, rot>>

\* saveMessage, line 109, for both messages: id := h.fm.id(m)
CallId ==
    /\ call.pc = "mangler"
    /\ call' = [call EXCEPT !.pc = "id",
                            !.ids = <<id(call.fm, call.m[1]), id(call.fm, call.m[2])>>]
    /\ UNCHANGED <<serverVars, parse, fh, rot>>

\* saveMessage, line 114, for both messages: filename := h.fm.name(m)
CallName ==
    /\ call.pc = "id"
    /\ call' = [call EXCEPT !.pc = "name",
                            !.names = <<name(call.fm, call.m[1]), name(call.fm, call.m[2])>>]
    /\ UNCHANGED <<serverVars, parse, fh, rot>>

ManglerNext == CallNewFilenameMangler \/ CallId \/ CallName

ManglerSpec == ManglerInit /\ [][ManglerNext]_vars

\* ------------------------------------------------------------------ history helpers
\* The handler objects AddHandler registered.
Registered == {h \in HandlerIds : hcfg[h].kind # "none"}

BaseHandlers == {h \in Registered : hcfg[h].kind = "base"}

\* The positions in calls of the terminate calls h.Handle(nil).
TerminateCalls(h) == {i \in DOMAIN calls : calls[i].h = h /\ calls[i].arg = NilMsg}

\* The positions in calls of the calls h.Handle(m) with a message.
MessageCalls(h) == {i \in DOMAIN calls : calls[i].h = h /\ calls[i].arg # NilMsg}

\* ------------------------------------------------------------------ C1
\* C1: once Shutdown has returned, every registered handler has received
\* exactly one Handle(nil), the server queue is closed and no listener is open.
C1_TerminateContract ==
    sPc = "returned" =>
        /\ \A h \in Registered : Cardinality(TerminateCalls(h)) = 1
        /\ queueClosed
        /\ \A l \in ListenerIds : connState[l] # "open"

\* Shutdown has returned with two handlers registered and a listener closed.
C1_Witness ==
    /\ sPc = "returned"
    /\ Cardinality(Registered) = 2
    /\ \E l \in ListenerIds : connState[l] = "closed"

\* ------------------------------------------------------------------ C2
\* C2: no handler is invoked with a message after (or while) it is invoked
\* with nil, and the dispatch goroutine never sends on a BaseHandler's
\* closed internal queue.
C2_TerminateAfterDrain ==
    /\ \A h \in Registered : \A i \in TerminateCalls(h) : \A j \in MessageCalls(h) : j < i
    /\ crashed # "send on closed BaseHandler.queue"

\* ------------------------------------------------------------------ C3
\* The first registered handler was invoked with message m.
PassedToFirst(m) == \E i \in MessageCalls(1) : calls[i].arg = m

\* C3: when the dispatch goroutine has exited, every message that was sent
\* to the server queue has been passed to the first registered handler.
C3_QueueDrainedThroughChain ==
    (dPc = "exited" /\ 1 \in Registered) =>
        \A k \in DOMAIN enqLog : PassedToFirst(enqLog[k])

\* ------------------------------------------------------------------ C4
\* The messages the dispatch goroutine offered to h's internal queue: the
\* arguments of the Handle calls that the discard predicate accepted.
Offered(h) ==
    LET acc == SelectSeq(calls, LAMBDA c :
                   c.h = h /\ c.arg # NilMsg /\ Accepted(hcfg[h], c.arg))
    IN [i \in DOMAIN acc |-> acc[i].arg]

FirstN(seq, n) == SubSeq(seq, 1, IF Len(seq) < n THEN Len(seq) ELSE n)

\* C4: a BaseHandler's internal queue never holds more than its capacity;
\* while the consumer has obtained nothing from Get it holds exactly the first
\* HQLen offered messages; and a Handle(m) call that the dispatch goroutine is
\* about to make on a BaseHandler can always complete (it never waits).
C4_DropOnFull ==
    /\ \A h \in BaseHandlers :
        /\ Len(hq[h]) <= HQLen
        /\ wGot[h] = <<>> => hq[h] = FirstN(Offered(h), HQLen)
    /\ (Alive /\ dPc = "chain" /\ hcfg[dChain[dIdx]].kind = "base")
            => ENABLED DispatchHandleBase

\* HQLen + 1 messages were offered to a BaseHandler whose consumer obtained
\* nothing: the queue is full and the last one was dropped.
C4_Witness ==
    \E h \in BaseHandlers :
        /\ wGot[h] = <<>>
        /\ Len(Offered(h)) = HQLen + 1
        /\ Len(hq[h]) = HQLen

\* ------------------------------------------------------------------ C5
\* The messages the first handler was invoked with, in call order.
SeenByFirst ==
    LET cs == SelectSeq(calls, LAMBDA c : c.h = 1 /\ c.arg # NilMsg)
    IN [i \in DOMAIN cs |-> cs[i].arg]

\* The position of message m in the enqueue history (0: never enqueued).
EnqPos(m) ==
    IF \E k \in DOMAIN enqLog : enqLog[k] = m
    THEN CHOOSE k \in DOMAIN enqLog : enqLog[k] = m
    ELSE 0

\* C5: the first handler sees enqueued messages only, in enqueue order, and
\* two messages of one listener are enqueued in the order their datagrams
\* were read.
C5_FifoOrder ==
    /\ \A i \in DOMAIN SeenByFirst : EnqPos(SeenByFirst[i]) > 0
    /\ \A i, j \in DOMAIN SeenByFirst :
        i < j => EnqPos(SeenByFirst[i]) < EnqPos(SeenByFirst[j])
    /\ \A i, j \in DOMAIN enqLog :
        (i < j /\ enqLog[i].src = enqLog[j].src) => enqLog[i].n < enqLog[j].n

\* Two messages of one listener were in the queue together and the first
\* handler has seen both.
C5_Witness ==
    /\ Len(SeenByFirst) = 2
    /\ SeenByFirst[1].src = SeenByFirst[2].src
    /\ qlen >= 2

\* ------------------------------------------------------------------ C6
\* The Handle calls made for the message the dispatch goroutine dequeued last.
ChainCalls == SelectSeq(calls, LAMBDA c : c.arg # NilMsg /\ c.arg.n = dOrig.n)

\* C6: for the message dequeued last, with dChain the handler list the range
\* statement read: the calls made so far went to dChain[1], dChain[2], ... in
\* this order, each got the message the one before returned, every call but
\* the last returned a message, and when the dispatch goroutine is done with
\* the message either the last call returned nil or every handler was called.
C6_ChainOfResponsibility ==
    LET cs == ChainCalls IN
    dOrig # NilMsg =>
        /\ Len(cs) <= Len(dChain)
        /\ \A k \in DOMAIN dChain : dChain[k] = k
        /\ \A k \in DOMAIN cs :
            /\ cs[k].h = dChain[k]
            /\ cs[k].arg = IF k = 1 THEN dOrig ELSE cs[k - 1].out
            /\ k < Len(cs) => cs[k].out # NilMsg
        /\ dPc = "chain" =>
            /\ Len(cs) = dIdx - 1
            /\ dMsg = IF dIdx = 1 THEN dOrig ELSE cs[dIdx - 1].out
            /\ dMsg # NilMsg
        /\ dPc # "chain" =>
            \/ Len(cs) = Len(dChain)
            \/ cs[Len(cs)].out = NilMsg

\* The second handler was invoked with the message the first one modified.
C6_Witness ==
    /\ dPc = "recv"
    /\ Len(ChainCalls) = 2
    /\ ChainCalls[2].h = 2
    /\ ChainCalls[2].arg.hops = 1

\* ------------------------------------------------------------------ C7
\* Message number n is held by a receiver for its send, or is in the queue.
Pending(n) ==
    \/ \E l \in ListenerIds : rPc[l] = "send" /\ rMsg[l].n = n
    \/ \E k \in DOMAIN queue : queue[k].n = n

\* Message number n, as it was enqueued, was passed to the first handler.
Delivered(n) == \E k \in DOMAIN enqLog : enqLog[k].n = n /\ PassedToFirst(enqLog[k])

\* C7: the server queue never holds more than qlen messages; no message is
\* enqueued twice; and a message that passed parser and ingress filter is
\* eventually passed to the first handler, unless Shutdown is called.
C7_BoundedBlockingQueue ==
    /\ [](Len(queue) <= qlen)
    /\ [](\A i, j \in DOMAIN enqLog : i # j => enqLog[i].n # enqLog[j].n)
    /\ \A n \in 1..MaxMessages :
        (Pending(n) /\ 1 \in Registered) ~> (Delivered(n) \/ shutDown)

\* A receiver is blocked in its send on the full queue, Shutdown not called.
C7_Witness ==
    /\ ~shutDown
    /\ \E l \in ListenerIds : rPc[l] = "send" /\ ChanSend(queue, qlen, rMsg[l]).blocked

\* ------------------------------------------------------------------ C8
\* C8: parseMessage never panics: it returns a Message or an error.
C8_ParserTotal == parse.pc # "panic"

\* ------------------------------------------------------------------ C9
\* C9: every iteration of the structured-data scan makes progress (it ends
\* the scan or changes s or r), so that the scan, and parseMessage, end.
C9_ScanTerminates == parse.pc = "sdloop" => ScanStep(parse) # parse

\* ------------------------------------------------------------------ C10
\* Handle(nil) of h has been called and has returned.
TerminateReturned(h) ==
    /\ TerminateCalls(h) # {}
    /\ ~(sPc = "waitEnd" /\ handlers[sIdx] = h)

\* C10: BaseHandler.Handle(nil) closes the internal queue, and it returns
\* only after the worker called End; so Shutdown returns only after the
\* worker of every registered BaseHandler called End.
C10_TerminateWaitsForEnd ==
    /\ \A h \in BaseHandlers :
        /\ TerminateCalls(h) # {} => hqClosed[h]
        /\ TerminateReturned(h) => hEnd[h]
    /\ sPc = "returned" => \A h \in BaseHandlers : hEnd[h]

\* Shutdown has returned with two BaseHandlers registered.
C10_Witness ==
    /\ sPc = "returned"
    /\ Cardinality(BaseHandlers) = 2

\* ------------------------------------------------------------------ C11
\* What a step may do to h's internal queue and to what Get has returned:
\* nothing, or Handle appends its message at the end of the queue, or Get
\* returns the head of the queue.
QueueStep(h) ==
    \/ hq'[h] = hq[h] /\ wGot'[h] = wGot[h]
    \/ hq'[h] = Append(hq[h], dMsg) /\ wGot'[h] = wGot[h]
    \/ /\ hq[h] # <<>>
       /\ wGot'[h] = Append(wGot[h], Head(hq[h]))
       /\ hq'[h] = Tail(hq[h])

C12_HandleResult ==
    /\ [](\A i \in DOMAIN calls :
            LET c == calls[i]
                f == hcfg[c.h]
            IN (f.kind = "base" /\ c.arg # NilMsg) =>
                 c.out = IF f.discard # "nil" /\ ~ApplyFilter(f.discard, c.arg) THEN c.arg
                         ELSE IF f.ft THEN c.arg ELSE NilMsg)
    /\ [][\A h \in HandlerIds :
            Len(hq'[h]) > Len(hq[h]) =>
                (hcfg[h].discard = "nil" \/ ApplyFilter(hcfg[h].discard, dMsg))]_vars

\* A forward-through BaseHandler returned the message although its queue was
\* full and the message was dropped.
C12_Witness ==
    \E h \in BaseHandlers :
        /\ hcfg[h].ft
        /\ wGot[h] = <<>>
        /\ Len(hq[h]) = HQLen
        /\ \E i, j \in MessageCalls(h) : i < j /\ calls[j].out = calls[j].arg

\* ------------------------------------------------------------------ C13
\* The files the FileHandler opened that are still open.
OpenHandles == {i \in DOMAIN fh.handles : fh.handles[i].open}

\* The last call made to the FileHandler ("none" before the first).
LastFileOp == IF fh.calls = <<>> THEN "none" ELSE fh.calls[Len(fh.calls)].op

\* C13: after SigHup no file is open and the table is empty; and every
\* accepted message, also after a SigHup, is written to its file when the
\* filesystem reports no error (the handler keeps working).
C13_SigHupReopens ==
    /\ LastFileOp = "sighup" => OpenHandles = {} /\ OpenKeys(fh) = {}
    /\ \A i \in DOMAIN fh.calls :
        LET c == fh.calls[i] IN
        (c.op = "handle" /\ c.accepted /\ c.err = "none") => c.wrote /\ c.entry

\* ------------------------------------------------------------------ C14
\* C14: a Handle(m) call whose filter rejects m returns m and writes nothing;
\* one whose filter accepts m writes m (when the filesystem reports no error)
\* and returns m with the propagate flag and nil without it.
C14_FileHandleResult ==
    \A i \in DOMAIN fh.calls :
        LET c == fh.calls[i] IN
        c.op = "handle" =>
            /\ ~c.accepted => c.out = "m" /\ ~c.wrote
            /\ c.accepted => c.out = IF fh.propagateAll THEN "m" ELSE "nil"
            /\ (c.accepted /\ c.err = "none") => c.wrote

\* ------------------------------------------------------------------ C15
\* C15: when Handle(nil) has returned no file of the handler is open and
\* the open-file table is empty.
C15_TerminateClosesAll ==
    LastFileOp = "nil" => OpenHandles = {} /\ OpenKeys(fh) = {}

\* ------------------------------------------------------------------ C16
\* The accepted Handle calls for file id k, as positions in the history.
AcceptedCalls(k) ==
    {i \in DOMAIN fh.calls :
        fh.calls[i].op = "handle" /\ fh.calls[i].accepted /\ fh.calls[i].key = k}

\* The errors the calls so far met.
ErrorCalls == {i \in DOMAIN fh.calls : fh.calls[i].err # "none"}

\* C16: every error is logged; a Handle call that met a filesystem error
\* returned what it returns on success; after a failed mkdir or open the
\* table has no entry for the file id; and the next accepted message with
\* this file id tries to open the file again.
C16_ErrorsAbsorbed ==
    /\ fh.pc = "ready" => fh.logged = Cardinality(ErrorCalls)
    /\ \A k \in Keys : \A i \in AcceptedCalls(k) :
        LET c == fh.calls[i] IN
        c.err # "none" =>
            /\ c.out = IF fh.propagateAll THEN "m" ELSE "nil"
            /\ ~c.wrote
            /\ c.err \in {"mkdir", "open"} =>
                /\ ~c.entry
                /\ \A j \in AcceptedCalls(k) :
                    (j > i /\ \A x \in AcceptedCalls(k) : ~(i < x /\ x < j))
                        => fh.calls[j].attempt

\* After a failed open the next message with the same file id opened the
\* file and was written.
C16_Witness ==
    \E k \in Keys : \E i, j \in AcceptedCalls(k) :
        /\ j = i + 1
        /\ fh.calls[i].err = "open"
        /\ fh.calls[j].err = "none" /\ fh.calls[j].wrote
        /\ fh.disk[PathOf(k)].exists

\* ------------------------------------------------------------------ C17
\* The number of rotations that have completed.
Completed == Cardinality({t \in DOMAIN rot.tasks : rot.tasks[t].pc = "done"})

\* C17: after K >= N rotations, made one after the other on a fresh
\* <path>.tmp each, exactly the archives 1..N exist, and neither <path>.tmp
\* nor the live file exists.
C17_RetainedArchives ==
    (rot.pc = "ready" /\ rot.mode = "test" /\ ActiveTasks(rot) = {}
            /\ Completed >= rot.retain) =>
        /\ \A i \in 1..MaxArchive : (rot.gz[i] # 0) <=> (i <= rot.retain)
        /\ rot.tmp = 0
        /\ rot.live = 0

\* ------------------------------------------------------------------ C18
\* C18: at most one rotation task is at work on the path, and the content
\* of every live file that was renamed to <path>.tmp is still in <path>.tmp
\* or has been compressed into <path>.1.gz.
C18_SingleWriterRotation ==
    (rot.pc = "ready" /\ rot.mode = "handler") =>
        /\ Cardinality(ActiveTasks(rot)) <= 1
        /\ \A c \in rot.rotated : c \in rot.archived \/ rot.tmp = c

\* ------------------------------------------------------------------ C19
\* s is an initial part of t.
IsPrefix(s, t) == Len(s) <= Len(t) /\ SubSeq(t, 1, Len(s)) = s

\* C19: in append mode no step removes or shortens a file or changes the
\* lines it held, and a line that is written comes after them.
C19_AppendKeepsContent ==
    [][fh.pc = "ready" /\ fh.append =>
        \A p \in Paths :
            /\ fh.disk[p].exists => fh'.disk[p].exists
            /\ IsPrefix(fh.disk[p].content, fh'.disk[p].content)]_vars

\* In append mode a file from an earlier run was opened, written, closed,
\* opened again and written: it holds the old line and both new lines.
C19_Witness ==
    \E p \in Paths :
        /\ fh.pc = "ready" /\ fh.append
        /\ fh.disk[p].content = <<0, 1, 3>>
        /\ fh.calls[2].op = "nil"

\* ------------------------------------------------------------------ C20
\* C20: a ListenFilter call after Shutdown panics and leaves the listener
\* list, the listeners and the receivers as they are; a call before Shutdown
\* whose bind fails leaves them as they are and does not panic.
C20_ListenAfterShutdown ==
    /\ [][\A f \in FilterNames :
            (ListenFilter(f, TRUE) \/ ListenFilter(f, FALSE)) /\ shutDown =>
                /\ crashed' = "Server is already shut down"
                /\ UNCHANGED <<conns, connState, rPc>>]_vars
    /\ [][\A f \in FilterNames :
            ListenFilter(f, FALSE) /\ ~shutDown =>
                UNCHANGED <<conns, connState, rPc, crashed>>]_vars
    /\ [](crashed = "Server is already shut down" => shutDown)

\* Listen was called after Shutdown returned, with a listener closed by it.
C20_Witness ==
    /\ crashed = "Server is already shut down"
    /\ sPc = "returned"
    /\ \E l \in ListenerIds : connState[l] = "closed"

\* ------------------------------------------------------------------ C21
\* The receivers that have returned.
Exited(l) == rPc[l] \in {"exited", "exitedLogged"}

\* C21: every message sent to the server queue was parsed without error and
\* accepted by the ingress filter of its listener; a receiver that holds a
\* parsed and accepted message puts it into the queue (its send does not
\* fail); a step that drops a datagram leaves the receiver reading; and a
\* receiver returns only from a failed read.
C21_IngressContract ==
    /\ [](\A k \in DOMAIN enqLog :
            /\ enqLog[k].fac \in Facilities
            /\ ApplyFilter(acceptOf[enqLog[k].src], enqLog[k]))
    /\ [](crashed # "send on closed Server.queue")
    /\ [][\A l \in ListenerIds :
            /\ (rPc[l] = "send" /\ rPc'[l] # "send") =>
                    rPc'[l] = "read" /\ enqLog' = Append(enqLog, rMsg[l])
            /\ (~Exited(l) /\ Exited(l)') => rPc[l] = "read" /\ ReceiverReadError(l)]_vars

\* A receiver was about to send its message when Shutdown closed the queue.
C21_Witness ==
    /\ queueClosed
    /\ \E l \in ListenerIds : rPc[l] = "send" /\ connState[l] = "closed"

\* ------------------------------------------------------------------ C22
\* C22: a receiver whose read failed because Shutdown closed its listener
\* returned without logging; a receiver that logged a read error did so
\* while the server was not shutting down; and a failed read ends the
\* receiver, logged exactly when the shutdown flag is not set.
C22_SilentReadErrorOnShutdown ==
    /\ [][\A l \in ListenerIds :
            ReceiverReadError(l) =>
                /\ Exited(l)'
                /\ rPc'[l] = "exitedLogged" <=> ~shutDown
                /\ connState[l] = "closed" => rPc'[l] = "exited"]_vars
    /\ [](\A l \in ListenerIds : connState[l] = "closed" => shutDown)

\* Shutdown closed two listeners: the receiver of one had logged a read
\* error before it began, the other returned silently while it ran.
C22_Witness ==
    /\ sPc = "returned"
    /\ \E l, k \in ListenerIds :
        /\ rPc[l] = "exited" /\ connState[l] = "closed"
        /\ rPc[k] = "exitedLogged" /\ connState[k] = "closed"

\* ------------------------------------------------------------------ C23
\* C23: for a facility up to Local7 and a severity up to Debug,
\* Message.Priority is facility * 8 + severity, and the facility and
\* severity the parser decodes from it are the ones of the message.
C23_PriorityRoundTrip ==
    (call.pc \in {"priority", "decoded"} /\ call.m.facility <= Local7
            /\ call.m.severity <= Debug) =>
        /\ call.prio = call.m.facility * 8 + call.m.severity
        /\ call.pc = "decoded" => call.out = call.m

\* local7.debug was encoded as 191 and decoded.
C23_Witness ==
    /\ call.pc = "decoded"
    /\ call.m = [facility |-> Local7, severity |-> Debug]
    /\ call.prio = 191

\* ------------------------------------------------------------------ C24
\* The length of the priority field a datagram starts with ('<', one to
\* three digits, '>'), or 0.
PriorityFieldLen(pkt) ==
    LET fits(n) == /\ Len(pkt) >= n + 2
                   /\ pkt[1] = "<"
                   /\ pkt[n + 2] = ">"
                   /\ \A i \in 2..(n + 1) : pkt[i] \in Digits
    IN IF fits(1) THEN 3 ELSE IF fits(2) THEN 4 ELSE IF fits(3) THEN 5 ELSE 0

\* The header as the sub-parser receives it, with the version it was cut off.
HeaderGiven(st) == IF st.m.version = 1 THEN <<"1", " ">> \o st.s ELSE st.s

\* C24: a datagram that starts with a priority field of one to three
\* digits is parsed (parseMessage neither fails nor panics) with facility
\* p div 8 and severity p mod 8, and the sub-parser receives the header
\* without the field; a datagram that does not start with '<' is parsed with
\* facility 1 (User) and severity 5 (Notice).
C24_PriorityField ==
    LET pkt == parse.pkt
        n == PriorityFieldLen(pkt)
        noField == pkt = <<>> \/ pkt[1] # "<"
        p == IF n > 0 THEN DecimalValue(SubSeq(pkt, 2, n - 1)) ELSE 13
    IN (parse.pc \notin {"idle", "parseMessage"} /\ (n > 0 \/ noField)) =>
        /\ parse.pc \notin {"panic", "error"}
        /\ parse.m.facility = p \div 8
        /\ parse.m.severity = p % 8
        /\ parse.pc \in {"rfc5424", "rfc3164"} => IsPrefix(HeaderGiven(parse), From(pkt, n))

\* "<165>a:" was parsed as local4.notice with the hostname a.
C24_Witness ==
    /\ parse.pc = "done"
    /\ parse.pkt = <<"<", "1", "6", "5", ">", "a", ":">>
    /\ parse.m.facility = 20 /\ parse.m.severity = 5
    /\ parse.m.hostname = <<"a">>

\* ------------------------------------------------------------------ C25
\* The positions of the '.' in a filter text.
Dots(text) == {i \in DOMAIN text : text[i] = "."}

\* Some name of the comma-separated list is not a facility (severity) name.
UnknownFacilityIn(list) ==
    \E i \in DOMAIN SplitOn(list, ",") : ParseFacility(SplitOn(list, ",")[i]).err # <<>>

UnknownSeverityIn(list) ==
    \E i \in DOMAIN SplitOn(list, ",") : ParseSeverity(SplitOn(list, ",")[i]).err # <<>>

\* C25: a text without exactly one '.', or with an empty side, gives the
\* error "invalid priority filter"; a text F.S with an unknown name in a
\* list gives an unknown facility or unknown severity error; else there is
\* no error and the filter accepts m exactly when (F is "*" or the facility
\* of m is named in F) and (S is "*" or the severity of m is named in S).
C25_PriorityFilter ==
    LET text == call.text
        d == CHOOSE i \in Dots(text) \cup {0} : i \in Dots(text) \/ Dots(text) = {}
        F == SubSeq(text, 1, d - 1)
        S == SubSeq(text, d + 1, Len(text))
        wellFormed == Cardinality(Dots(text)) = 1 /\ F # <<>> /\ S # <<>>
        unknown == \/ F # <<"*">> /\ UnknownFacilityIn(F)
                   \/ S # <<"*">> /\ UnknownSeverityIn(S)
        named(list, v, parseOne(_)) ==
            \E i \in DOMAIN SplitOn(list, ",") : parseOne(SplitOn(list, ",")[i]).val = v
    IN call.pc \in {"parsed", "applied"} =>
        /\ ~wellFormed => call.err = ErrorOf(text, "invalid priority filter")
        /\ (wellFormed /\ unknown) =>
            /\ call.err # <<>>
            /\ \A i \in DOMAIN call.err :
                call.err[i].what \in {"unknown facility", "unknown severity"}
        /\ (wellFormed /\ ~unknown) =>
            /\ call.err = <<>>
            /\ call.pc = "applied" =>
                (call.accepted <=>
                    /\ F = <<"*">> \/ named(F, call.m.facility, ParseFacility)
                    /\ S = <<"*">> \/ named(S, call.m.severity, ParseSeverity))

\* "user.info,warn" accepted a user.warning message.
C25_Witness ==
    /\ call.pc = "applied"
    /\ call.text = <<"user", ".", "info", ",", "warn">>
    /\ call.m = [facility |-> 1, severity |-> 4]
    /\ call.accepted

\* ------------------------------------------------------------------ C26
\* The codes of the severity names and of the aliases warn, error and panic
\* (-1: no severity name).
SeverityCode(word) ==
    IF TableIndex(sevToStr, word) >= 0 THEN TableIndex(sevToStr, word)
    ELSE IF word = <<"warn">> THEN 4
    ELSE IF word = <<"error">> THEN 3
    ELSE IF word = <<"panic">> THEN 0
    ELSE -1

\* C26: ParseSeverities gives the codes of the names of the list, where
\* warn, error and panic stand for Warning, Err and Emerg; when a name is
\* no severity name it fails with "<name>: unknown severity" for the first
\* such name.
C26_SeverityNames ==
    LET words == SplitOn(call.text, ",")
        bad == {i \in DOMAIN words : SeverityCode(words[i]) < 0}
    IN call.pc = "severities" =>
        IF bad = {}
        THEN /\ call.err = <<>>
             /\ call.list = [i \in DOMAIN words |-> SeverityCode(words[i])]
        ELSE LET first == CHOOSE i \in bad : \A j \in bad : i <= j
             IN call.err = ErrorOf(words[first], "unknown severity")

\* "error,warn" was parsed as Err, Warning.
C26_Witness ==
    /\ call.pc = "severities"
    /\ call.text = <<"error", ",", "warn">>
    /\ call.list = <<3, 4>>

\* ------------------------------------------------------------------ C27
\* Two field values are the same, or one is empty and the other is "-".
SameField(a, b) == a = b \/ {a, b} \subseteq {<<>>, <<"-">>}

\* The time a Message is rendered with.
ts(m) == IF m.timestamp = 0 THEN m.time ELSE m.timestamp

\* C27: the Message that parsing the RFC 5424 rendering of a Message yields
\* has the same facility, severity, timestamp, hostname, application,
\* procID, msgID, data and content, up to empty against "-".
C27_ParseFormatInverse ==
    LET m == call.m
        r == parse.m
    IN (call.pc = "parsing" /\ parse.pc = "done") =>
            /\ r.facility = m.facility /\ r.severity = m.severity
            /\ r.tsParsed /\ r.timestamp = RFC3339(ts(m))
            /\ SameField(r.hostname, m.hostname)
            /\ SameField(r.application, m.application)
            /\ SameField(r.procID, m.procID)
            /\ SameField(r.msgID, m.msgID)
            /\ SameField(r.data, m.data)
            /\ r.content = m.content

\* A Message with every field set was rendered and parsed back as it was.
C27_Witness ==
    /\ call.pc = "parsing" /\ parse.pc = "done"
    /\ call.m.hostname = <<"h">> /\ call.m.application = <<"a">>
    /\ call.m.procID = <<"p">> /\ call.m.msgID = <<"i">>
    /\ call.m.data = <<"[", "d", "]">> /\ call.m.content = <<"c">>
    /\ parse.m.hostname = <<"h">> /\ parse.m.application = <<"a">>
    /\ parse.m.procID = <<"p">> /\ parse.m.msgID = <<"i">>
    /\ parse.m.data = <<"[", "d", "]">> /\ parse.m.content = <<"c">>

\* ------------------------------------------------------------------ C28
\* C28: the rendering of a Message has no two spaces next to each other.
C28_NoDoubleSpace ==
    call.pc \in {"formatted", "parsing"} =>
        \A i \in 1..(Len(call.out) - 1) : ~(call.out[i] = " " /\ call.out[i + 1] = " ")

\* A Message with only the msgID and the content set was rendered.
C28_Witness ==
    /\ call.pc = "formatted"
    /\ call.m.version = 1 /\ call.m.timestamp = 6
    /\ call.m.hostname = <<>> /\ call.m.application = <<>> /\ call.m.procID = <<>>
    /\ call.out = <<"<", "1", "3", ">", "1", " ", "2023-10-06T15:30:00Z", " ", "i", " ", "c">>

\* ------------------------------------------------------------------ C29
\* The words of the canonical RFC 5424 rendering before the content.
CanonicalHeader(m) ==
    LET v == IF m.version < 1 THEN 1 ELSE m.version
        first == <<"<">> \o Itoa(m.facility * 8 + m.severity) \o <<">">> \o Itoa(v)
                    \o <<" ">> \o RFC3339(ts(m))
        fields == <<m.hostname, m.application, m.procID, m.msgID, m.data>>
    IN <<first>> \o SelectSeq(fields, LAMBDA f : f # <<>>)

\* C29: the rendering is <PRI>, the version (at least 1), a space and the
\* RFC 3339 timestamp, then every field that is not empty after one space,
\* in the order hostname, application, procID, msgID, data, then the content
\* after one space, or after none when it begins with ':'.
C29_CanonicalRendering ==
    call.pc \in {"formatted", "parsing"} =>
        call.out = Join(CanonicalHeader(call.m), <<" ">>)
                    \o (IF call.m.content # <<>> /\ call.m.content[1] = ":"
                        THEN call.m.content ELSE <<" ">> \o call.m.content)

\* A Version 1 Message with every field set was rendered.
C29_Witness ==
    /\ call.pc = "formatted"
    /\ call.m.facility = 20 /\ call.m.timestamp = 26
    /\ call.out = <<"<", "1", "6", "5", ">", "1", " ", "2023-10-26T15:30:00Z", " ", "h",
                    " ", "a", " ", "p", " ", "i", " ", "[", "d", "]", " ", "c">>

\* ------------------------------------------------------------------ C30
\* The value of message m that a placeholder stands for: an empty or "-"
\* hostname or program name counts as "unknown".
PlaceholderValue(piece, m) ==
    CASE piece = "%hostname%" -> IF m.hostname \in {"", "-"} THEN "unknown" ELSE m.hostname
      [] piece = "%programname%" ->
            IF m.application \in {"", "-"} THEN "unknown" ELSE m.application
      [] piece = "%facility%" -> facToStr[m.facility + 1]
      [] piece = "%severity%" -> sevToStr[m.severity + 1]
      [] OTHER -> piece

\* The field of m that a placeholder names, as the key carries it.
KeyValue(piece, m) ==
    CASE piece = "%hostname%" -> m.hostname
      [] piece = "%programname%" -> m.application
      [] piece = "%facility%" -> facToStr[m.facility + 1]
      [] piece = "%severity%" -> sevToStr[m.severity + 1]
      [] OTHER -> ""

\* C30: the file name is the template with every placeholder replaced by
\* the value of the message; and two messages have the same key in the
\* open-file table exactly when they agree in every field that a
\* placeholder of the template names.
C30_FileNameAndKey ==
    LET t == call.template IN
    /\ call.pc = "name" =>
        \A k \in 1..2 :
            call.names[k] = [i \in DOMAIN t |-> PlaceholderValue(t[i], call.m[k])]
    /\ call.pc \in {"id", "name"} =>
        (call.ids[1] = call.ids[2] <=>
            \A i \in DOMAIN t : KeyValue(t[i], call.m[1]) = KeyValue(t[i], call.m[2]))

\* With the template "%hostname%%programname%" a message without hostname
\* goes to "unknown" + "myapp", and a message of another facility shares
\* its key.
C30_Witness ==
    /\ call.pc = "name"
    /\ call.template = <<"%hostname%", "%programname%">>
    /\ call.m[1].hostname = "" /\ call.m[1].application = "myapp"
    /\ call.names[1] = <<"unknown", "myapp">>
    /\ call.m[2] = [call.m[1] EXCEPT !.facility = 3]
    /\ call.m[1].facility = 0
    /\ call.ids[1] = call.ids[2]

\* ------------------------------------------------------------------ C31
\* C31: no receiver executes its send on the server queue once Shutdown has
\* closed the queue, whether it held a parsed message or was blocked on the
\* full queue when the queue was closed.
C31_NoSendAfterClose ==
    [][\A l \in ListenerIds : ~(queueClosed /\ ReceiverSend(l))]_vars

\* Shutdown closed the queue while a receiver was blocked on the full queue.
C31_Witness ==
    /\ queueClosed /\ Alive
    /\ Len(queue) >= qlen
    /\ \E l \in ListenerIds : rPc[l] = "send"

\* ------------------------------------------------------------------ C32
\* C32: when a rotation with retain N, made on its own, has completed,
\* <path>.1.gz holds what <path>.tmp held when it started, <path>.(i+1).gz
\* holds what <path>.i.gz held for 1 <= i < N, and what <path>.N.gz held is
\* in no archive; and no step of a rotation replaces the content of an
\* archive that exists by another content.
C32_GenerationShift ==
    /\ [](  (rot.pc = "ready" /\ rot.mode = "test" /\ ActiveTasks(rot) = {}
                /\ Len(rot.tasks) >= 1 /\ rot.tasks[Len(rot.tasks)].pc = "done") =>
            /\ rot.gz[1] = rot.before.tmp
            /\ \A i \in 1..(rot.retain - 1) : rot.gz[i + 1] = rot.before.gz[i]
            /\ rot.retain >= 1 /\ rot.before.gz[rot.retain] # 0 =>
                    \A i \in 1..MaxArchive : rot.gz[i] # rot.before.gz[rot.retain])
    /\ [][(rot.pc = "ready" /\ rot.mode = "test") =>
            \A i \in 1..MaxArchive :
                rot.gz[i] # 0 => rot'.gz[i] \in {0, rot.gz[i]}]_vars

\* The third rotation with retain 2 has completed: the first content is
\* gone, the second is in <path>.2.gz and the third in <path>.1.gz.
C32_Witness ==
    /\ rot.pc = "ready" /\ rot.mode = "test" /\ rot.retain = 2
    /\ ActiveTasks(rot) = {} /\ Completed = 3
    /\ rot.before.gz[1] = 2 /\ rot.before.gz[2] = 1
    /\ rot.gz[1] = 3 /\ rot.gz[2] = 2

\* ------------------------------------------------------------------ C33
\* The calls so far were Handle calls for messages and met no I/O error.
OnlyMessages ==
    \A i \in DOMAIN fh.calls : fh.calls[i].op = "handle" /\ fh.calls[i].err = "none"

\* The numbers of the accepted Handle calls whose message is filed in p, in
\* the order of the calls.
LinesDue(p) ==
    LET Due(i) == fh.calls[i].accepted /\ PathOf(fh.calls[i].key) = p
    IN SelectSeq([i \in DOMAIN fh.calls |-> i], Due)

\* The lines in file p that the handler wrote.
LinesIn(p) ==
    LET Written(n) == n >= 1
    IN SelectSeq(fh.disk[p].content, Written)

\* C33: after Handle calls for messages without I/O error, every file
\* holds one line for each accepted message that is filed in it and no
\* other line of the handler, in the order of the calls.
C33_OneLinePerMessage ==
    (fh.pc = "ready" /\ OnlyMessages) => \A p \in Paths : LinesIn(p) = LinesDue(p)

\* Three accepted messages for two files, the second file written between
\* the two lines of the first.
C33_Witness ==
    /\ fh.pc = "ready" /\ OnlyMessages
    /\ \E p, q \in Paths : LinesIn(p) = <<1, 3>> /\ LinesIn(q) = <<2>>

\* ------------------------------------------------------------------ C34
\* C34: two file ids in the open-file table never name the same file, no
\* two open files of the handler have the same path, and no Handle call
\* opens a file for which the handler holds an open file.
C34_OneWriterPerPath ==
    /\ [](\A k1, k2 \in OpenKeys(fh) : PathOf(k1) = PathOf(k2) => k1 = k2)
    /\ [](\A i, j \in OpenHandles :
            PathOf(fh.handles[i].key) = PathOf(fh.handles[j].key) => i = j)
    /\ [][Len(fh'.handles) > Len(fh.handles) =>
            \A i \in OpenHandles :
                PathOf(fh.handles[i].key) # PathOf(fh'.handles[Len(fh'.handles)].key)]_vars

\* A message without hostname and a message with hostname "-" were filed
\* one after the other, both in the file "unknown".
C34_Witness ==
    /\ fh.pc = "ready" /\ Len(fh.calls) = 2
    /\ fh.calls[1].key = "" /\ fh.calls[1].wrote
    /\ fh.calls[2].key = "-" /\ fh.calls[2].wrote
    /\ PathOf("") = <<"unknown">> /\ PathOf("-") = <<"unknown">>

\* ------------------------------------------------------------------ C35
\* The position of the first byte order mark in bs, or -1.
MarkAt(bs) ==
    LET marks == {i \in 0..(Len(bs) - 3) : Slice(bs, i, i + 3) = BOM} IN
    IF marks = {} THEN 0 - 1 ELSE CHOOSE i \in marks : \A j \in marks : i <= j

\* C35: the Message parsed from a datagram with a byte order mark has the
\* bytes after the mark as its content, and the sub-parser was given bytes
\* before the mark only, for version 1 and for version 0.
C35_ContentAfterMark ==
    LET bs == TrimRightFunc(parse.pkt)
        at == MarkAt(bs)
    IN (parse.pc = "done" /\ at >= 0) =>
        /\ parse.m.content = From(bs, at + 3)
        /\ Len(parse.s) <= at

\* "1 - h a p i - " + mark + "x: y" was parsed: hostname h and content "x: y".
C35_Witness ==
    /\ parse.pc = "done"
    /\ parse.pkt = <<"1", " ", "-", " ", "h", " ", "a", " ", "p", " ", "i", " ", "-", " ">>
                        \o BOM \o <<"x", ":", " ", "y">>
    /\ parse.m.hostname = <<"h">>
    /\ parse.m.content = <<"x", ":", " ", "y">>

\* ------------------------------------------------------------------ C36
\* The length of the leading run of bracketed blocks of str: each block
\* ends at its first unescaped ']' and the next one starts directly after.
RECURSIVE RunEnd(_)
RunEnd(str) ==
    IF str # <<>> /\ str[1] = "[" /\ indexRune(str, "]") >= 0
    THEN indexRune(str, "]") + 1 + RunEnd(From(str, indexRune(str, "]") + 1))
    ELSE 0

\* C36: for a datagram "1 " + text whose text starts with '[' (it has no
\* timestamp and no header field), the structured data of the parsed
\* Message is the leading run of blocks of the text, and the content is
\* what follows the run, less one leading space.
C36_StructuredDataRun ==
    LET text == From(TrimRightFunc(parse.pkt), 2)
        e == RunEnd(text)
        rest == From(text, e)
    IN (parse.pc = "done" /\ HasPrefix(parse.pkt, <<"1", " ", "[">>) /\ ~parse.hasBOM) =>
        /\ parse.m.data = Upto(text, e)
        /\ parse.m.content = IF HasPrefix(rest, <<" ">>) THEN From(rest, 1) ELSE rest

\* "1 [a] a" was parsed: the data is "[a]" and the content "a".
C36_Witness ==
    /\ parse.pc = "done"
    /\ parse.pkt = <<"1", " ", "[", "a", "]", " ", "a">>
    /\ parse.m.data = <<"[", "a", "]">>
    /\ parse.m.content = <<"a">>

\* ------------------------------------------------------------------ C37
\* The text between the '<' a datagram starts with and the next '>':
\* there: the datagram has both; text: the bytes between them.
FieldText(pkt) ==
    LET bs == TrimRightFunc(pkt)
        gt == IF bs = <<>> THEN 0 - 1 ELSE IndexByte(Tail(bs), ">")
    IN [there |-> bs # <<>> /\ bs[1] = "<" /\ gt >= 0,
        text |-> IF gt >= 0 THEN Slice(bs, 1, 1 + gt) ELSE <<>>]

\* C37: parseMessage returns an error for every datagram that starts with
\* '<' text '>' where the text is not a decimal number.
C37_InvalidPriorityRejected ==
    LET f == FieldText(parse.pkt) IN
    (parse.pc \notin {"idle", "parseMessage"} /\ f.there /\ ~Atoi(f.text).ok) =>
        parse.pc = "error"

\* "<a1>a:" was rejected.
C37_Witness ==
    /\ parse.pc = "error"
    /\ parse.pkt = <<"<", "a", "1", ">", "a", ":">>

\* ------------------------------------------------------------------ C38
\* C38: when parseMessage has accepted the priority field '<' p '>' of a
\* datagram, Message.Priority is p, the facility is p div 8 and the
\* severity is at most 7, for an unsigned and for a signed p.
C38_PriorityAsWritten ==
    LET f == FieldText(parse.pkt)
        p == Atoi(f.text)
    IN (parse.pc \notin {"idle", "parseMessage", "error", "panic"} /\ f.there
            /\ Len(f.text) \in 1..3 /\ p.ok) =>
        /\ Priority(parse.m) = p.val
        /\ parse.m.facility = p.val \div 8
        /\ parse.m.severity \in 0..7

\* "<999>a:" was parsed with facility 124 and severity 7.
C38_Witness ==
    /\ parse.pc = "done"
    /\ parse.pkt = <<"<", "9", "9", "9", ">", "a", ":">>
    /\ parse.m.facility = 124 /\ parse.m.severity = 7
    /\ Priority(parse.m) = 999

\* ------------------------------------------------------------------ C39
\* The RFC 3164 datagram: timestamp of day t (with the year when y), "TZ" +
\* z, host h and tag a.
ZonePacket(t, y, z) ==
    (IF y THEN Layout3164WithYear(t) ELSE Layout3164(t))
        \o <<" ", "T", "Z">> \o z \o <<" ", "h", " ", "a", ":", " ", "x">>

\* The readings of the wall clock, in hours since the start of the month.
WallClock(t) == t.instant + t.offset

PlainHeader(str) ==
    LET s0 == TrimLeftFunc(str) IN Len(s0) <= 15 /\ ~HasPrefix(s0, <<"T", "Z">>)

\* The split of the last word w into application and process id.
TagOf(w, needsName) ==
    LET l == IndexByte(w, "[") IN
    IF HasSuffix(w, <<"]">>) /\ l >= (IF needsName THEN 1 ELSE 0)
    THEN [application |-> Upto(w, l), procID |-> Slice(w, l + 1, Len(w) - 1)]
    ELSE [application |-> w, procID |-> <<>>]

====
